---- MODULE Spec2Model ----
(***************************************************************************)
(* A model of the anime metadata updater (src/src): the Jikan rate limiter *)
(* and request loop, the tvshow.nfo metadata update, the folder window     *)
(* selection and the updater's run over the folders.                       *)
(*                                                                         *)
(* The specifications share the module, each over its own variables and    *)
(* each holding the other variables at their initial values:               *)
(*   SpecRate       JikanAPI.make_request / _apply_rate_limits             *)
(*   SpecRetry      one search under sustained HTTP 429 answers            *)
(*   SpecWindow     get_folder_subset                                      *)
(*   SpecEnrich     NFOProcessor._update_metadata applied repeatedly       *)
(*   SpecSearch     _update_metadata together with its search              *)
(*   SpecRun        AnimeMetadataUpdater.run                               *)
(*   SpecLang       appears_to_be_french                                   *)
(*   SpecTranslate  the translation step of a tvshow.nfo or episode file   *)
(*   SpecMpaa       MPAAProcessor._process_mpaa_for_folder                 *)
(*   SpecFolder     the files of one folder under the run's flags          *)
(*   SpecOrder      the order of the traversal                             *)
(***************************************************************************)
EXTENDS Integers, Sequences, FiniteSets, TLC

VARIABLES
    \* ---- JikanAPI (src/src/api/jikan_api.py)
    now,              \* the wall clock, time.time(), in ticks
    jikan_requests,   \* JikanAPI.jikan_requests: timestamps of recent requests
    current_time,     \* make_request's local current_time of the request in flight
    jikan_api_calls,  \* stats["jikan_api_calls"]
    rate_batch_mode,  \* options['batch_mode'] of the client
    rpc,              \* where make_request stands: "idle" | "awaiting"
    last_result,      \* what the last finished make_request returned
    recorded,         \* history: every timestamp recorded and not discarded
    sent,             \* history: the time every request went out
    idles,            \* number of caller pauses taken so far
    throttled,        \* number of HTTP 429 answers so far
    frames,           \* make_request activations on the call stack
    last_status,      \* the last answer received: "none" | "200" | "429" | "error"
    \* ---- get_folder_subset (src/src/utils/folder_utils.py)
    w_folders,        \* the sorted folder list get_anime_folders returned
    w_offset,         \* options['folder_offset']
    w_max_folders,    \* options['max_folders']
    w_result,         \* the tuple get_folder_subset returned
    wpc,              \* "ready" | "done"
    \* ---- NFOProcessor._update_metadata (src/src/processors/nfo_processor.py)
    e_root,           \* the children of the parsed tvshow.nfo root element
    e_next_id,        \* identity of the next element object created
    e_response,       \* what jikan_api.search_anime(title) answers
    e_youtube_api,    \* whether NFOProcessor.youtube_api is set
    e_search_answer,  \* what youtube_api.search_trailer(title) answers
    e_force_update,   \* options['force_update']
    e_before,         \* history: the children before each call
    e_after,          \* history: the children after each call
    e_outcomes,       \* history: what each call returned and did
    \* ---- AnimeMetadataUpdater.run (src/src/core/updater.py)
    options,          \* AnimeMetadataUpdater.options, after __init__
    claude_api,       \* whether a translation client was built
    is_default_mode,  \* AnimeMetadataUpdater.is_default_mode
    num_folders,      \* how many folders under the base folder hold a tvshow.nfo
    pc,               \* where run() stands
    mode,             \* the branch run() took: "MPAA" | "Windowed" | "Walk"
    todo,             \* the folders the traversal has still to visit
    root_health,      \* the tvshow.nfo of the folder being visited
    root_mpaa,        \* the text of its <mpaa> element
    episodes_left,    \* episode files of the folder still to process
    stats,            \* UpdaterStats.stats, the counters the model follows
    summaries,        \* how many times print_summary ran
    last,             \* what the last processed file's step did
    fs,               \* what the traversal met in the file system so far
    \* ---- appears_to_be_french (src/src/utils/language_utils.py)
    l_text,           \* the text handed to appears_to_be_french
    l_result,         \* what it returned
    lpc,              \* "ready" | "done"
    \* ---- translation of a document's two texts (src/src/api/claude_api.py)
    t_fields,         \* the texts of the two elements: plot and outline of a
                      \* tvshow.nfo, title and plot of an episode file
    t_client,         \* whether a translation client was built
    t_answers,        \* what the provider does with the first and second request
    t_kind,           \* "none" | "root" | "episode": the document processed
    t_before,         \* history: the two texts before the processing
    t_outcome,        \* history: what the translation step did
    \* ---- MPAAProcessor._process_mpaa_for_folder (src/src/processors/mpaa_processor.py)
    m_options,        \* options: sync_mpaa, remove_mpaa, force_update
    m_tvshow,         \* the tvshow.nfo of the folder
    m_episodes,       \* the episode files of the folder, in listing order
    m_before,         \* history: the episode files as the folder was entered
    m_value,          \* the local mpaa_value
    m_pos,            \* the index of the next episode file of the loop
    m_errors,         \* stats["errors"]
    m_updated,        \* stats["episodes_updated"]
    mpc,              \* "start" | "episodes" | "skipped" | "done"
    \* ---- one folder of the traversal (src/src/core/updater.py)
    d_options,        \* AnimeMetadataUpdater.options as the command line set them
    d_given,          \* the translation client, and what the providers and the
                      \* parent's <mpaa> hold for this folder
    d_root,           \* the tvshow.nfo document
    d_episode,        \* the episode document
    d_steps,          \* history: what the step of each processed file did
    dpc,              \* "root" | "episodes" | "done"
    \* ---- the order of the traversal (src/src/utils/folder_utils.py)
    o_walk,           \* the folders holding a tvshow.nfo, as os.walk yields them
    o_listing,        \* the episode files of a folder, as os.listdir yields them
    o_window,         \* <<folder_offset, max_folders>>
    o_mpaa,           \* whether the run is an MPAA run
    o_todo,           \* the folders still to go through, the one at hand first
    o_files,          \* the files of the folder at hand still to process
    o_visited,        \* history: <<folder, file>> of every file processed, in order
    opc               \* "start" | "run" | "done"

rateVars == <<now, jikan_requests, current_time, jikan_api_calls, rate_batch_mode,
              rpc, last_result, recorded, sent, idles, throttled, frames,
              last_status>>

windowVars == <<w_folders, w_offset, w_max_folders, w_result, wpc>>

enrichVars == <<e_root, e_next_id, e_response, e_youtube_api, e_search_answer,
                e_force_update, e_before, e_after, e_outcomes>>

runVars == <<options, claude_api, is_default_mode, num_folders, pc, mode, todo,
             root_health, root_mpaa, episodes_left, stats, summaries, last, fs>>

langVars == <<l_text, l_result, lpc>>

translateVars == <<t_fields, t_client, t_answers, t_kind, t_before, t_outcome>>

mpaaVars == <<m_options, m_tvshow, m_episodes, m_before, m_value, m_pos, m_errors,
              m_updated, mpc>>

folderVars == <<d_options, d_given, d_root, d_episode, d_steps, dpc>>

orderVars == <<o_walk, o_listing, o_window, o_mpaa, o_todo, o_files, o_visited, opc>>

vars == <<rateVars, windowVars, enrichVars, runVars, langVars, translateVars,
          mpaaVars, folderVars, orderVars>>

----------------------------------------------------------------------------
(* Helpers on sequences and numbers.                                       *)

Min2(a, b) == IF a <= b THEN a ELSE b
Max2(a, b) == IF a >= b THEN a ELSE b

Range(s) == {s[i] : i \in DOMAIN s}

SeqMin(s) == CHOOSE x \in Range(s) : \A y \in Range(s) : x <= y
SeqMax(s) == CHOOSE x \in Range(s) : \A y \in Range(s) : x >= y

Front(s) == SubSeq(s, 1, Len(s) - 1)

----------------------------------------------------------------------------
(* Folder selection (src/src/utils/folder_utils.py).  Folder paths are     *)
(* numbers, ordered as the paths are ordered.                              *)

\* Bounds of the model.
NumFolderNames == 4   \* folder paths that may exist
MaxWindow      == 5   \* largest folder_offset and max_folders tried

FolderNames == 1..NumFolderNames

\* list.sort() of the folders os.walk found: the increasing sequence of S.
RECURSIVE SortedSeq(_)
SortedSeq(S) ==
    IF S = {} THEN <<>>
    ELSE LET m == CHOOSE x \in S : \A y \in S : x <= y
         IN  <<m>> \o SortedSeq(S \ {m})

\* Python's s[a:b] for 0 <= a and 0 <= b: both ends are clamped to len(s).
PySlice(s, a, b) ==
    LET lo == Min2(a, Len(s))
        hi == Min2(b, Len(s))
    IN  IF lo >= hi THEN <<>> ELSE SubSeq(s, lo + 1, hi)

\* get_folder_subset with the limit counted from the start of the list
\* instead of from the offset.
GetFolderSubset_LimitFromStart(folders, offset, max_folders) ==
    LET total_folders == Len(folders)
        start_index   == Min2(offset, total_folders)
        end_index     == IF max_folders > 0
                         THEN Min2(max_folders, total_folders)
                         ELSE total_folders
    IN  [subset         |-> PySlice(folders, start_index, end_index),
         skipped_offset |-> start_index,
         skipped_limit  |-> IF max_folders > 0 THEN total_folders - end_index ELSE 0]

\* get_folder_subset with the end index not clamped to the list length.
GetFolderSubset_NoEndClamp(folders, offset, max_folders) ==
    LET total_folders == Len(folders)
        start_index   == Min2(offset, total_folders)
        end_index     == IF max_folders > 0
                         THEN start_index + max_folders
                         ELSE total_folders
    IN  [subset         |-> PySlice(folders, start_index, end_index),
         skipped_offset |-> start_index,
         skipped_limit  |-> IF max_folders > 0 THEN total_folders - end_index ELSE 0]

\* get_folder_subset(folders, offset, max_folders)
GetFolderSubset(folders, offset, max_folders) ==
    LET total_folders == Len(folders)
        start_index   == Min2(offset, total_folders)
        skipped_offset == start_index
        end_index     == IF max_folders > 0
                         THEN Min2(start_index + max_folders, total_folders)
                         ELSE total_folders
        skipped_limit == IF max_folders > 0
                         THEN total_folders - end_index
                         ELSE 0
    IN  [subset         |-> PySlice(folders, start_index, end_index),
         skipped_offset |-> skipped_offset,
         skipped_limit  |-> skipped_limit]

NoResult == [subset |-> <<>>, skipped_offset |-> 0, skipped_limit |-> 0]

WindowUnused ==
    /\ w_folders = <<>>
    /\ w_offset = 0
    /\ w_max_folders = 0
    /\ w_result = NoResult
    /\ wpc = "ready"

WindowStart ==
    /\ \E S \in SUBSET FolderNames : w_folders = SortedSeq(S)
    /\ w_offset \in 0..MaxWindow
    /\ w_max_folders \in 0..MaxWindow
    /\ w_result = NoResult
    /\ wpc = "ready"

\* The call get_folder_subset(all_folders, folder_offset, max_folders).
SelectWindow ==
    /\ wpc = "ready"
    /\ w_result' = GetFolderSubset(w_folders, w_offset, w_max_folders)
    /\ wpc' = "done"
    /\ UNCHANGED <<w_folders, w_offset, w_max_folders>>

----------------------------------------------------------------------------
(* The tvshow.nfo document (xml.etree.ElementTree).  The root element is   *)
(* the sequence of its children; a child is [id, tag, text], id being the  *)
(* identity of the element object and text "None" Python's None.           *)

None == "None"

Truthy(v) == v # None /\ v # ""

\* root.find(tag): the index of the first child with the tag, 0 for None.
Find(root, tag) ==
    IF \E i \in DOMAIN root : root[i].tag = tag
    THEN CHOOSE i \in DOMAIN root :
            /\ root[i].tag = tag
            /\ \A j \in DOMAIN root : root[j].tag = tag => i <= j
    ELSE 0

\* root.findall(tag)
FindAll(root, tag) == SelectSeq(root, LAMBDA e : e.tag = tag)

\* for elem in root.findall(tag): root.remove(elem)
RemoveAll(root, tag) == SelectSeq(root, LAMBDA e : e.tag # tag)

\* ET.SubElement(root, tag) followed by elem.text = text
SubElement(root, id, tag, text) == Append(root, [id |-> id, tag |-> tag, text |-> text])

\* for obj in data: name = obj.get('name'); if name: SubElement(root, tag).text = name
RECURSIVE AddNamed(_, _, _, _)
AddNamed(root, id, tag, names) ==
    IF names = <<>> THEN [root |-> root, next_id |-> id]
    ELSE IF Truthy(Head(names))
         THEN AddNamed(SubElement(root, id, tag, Head(names)), id + 1, tag, Tail(names))
         ELSE AddNamed(root, id, tag, Tail(names))

\* ET.tostring(root): the tags and texts of the children in document order.
Serialize(root) == [i \in DOMAIN root |-> <<root[i].tag, root[i].text>>]

Texts(elems) == [i \in DOMAIN elems |-> elems[i].text]

\* The names and video identifiers the provider answers carry.
Names    == {"A", "B"}
VideoIds == {"v1", "v2"}

\* float(text) of a stored rating, in tenths; a text outside raises ValueError.
FloatOf == [t \in {"8.5", "7.0"} |-> IF t = "8.5" THEN 85 ELSE 70]

\* str(score) of a fetched score, given in tenths.
StrOfScore == [n \in {85, 70} |-> IF n = 85 THEN "8.5" ELSE "7.0"]

\* f"plugin://plugin.video.youtube/play/?video_id={youtube_id}"
TrailerUrl(youtube_id) ==
    IF youtube_id = "v1" THEN "plugin://plugin.video.youtube/play/?video_id=v1"
    ELSE "plugin://plugin.video.youtube/play/?video_id=v2"

(* YouTubeAPI.extract_youtube_id.  A trailer descriptor is a dict          *)
(* [youtube_id, embed_url, url]; a URL is [form, id], form being "embed"   *)
(* (youtube.com/embed/<id>), "watch" (youtube.com/watch?v=<id>), "short"   *)
(* (youtu.be/<id>), "other", or "none" for a missing or empty URL.  A      *)
(* missing descriptor (None, {}) is the dict with nothing in it.           *)
NoUrl == [form |-> "none", id |-> None]
Url(form, id) == [form |-> form, id |-> id]
NoTrailer == [youtube_id |-> None, embed_url |-> NoUrl, url |-> NoUrl]

ExtractYoutubeId(trailer_data) ==
    IF Truthy(trailer_data.youtube_id) THEN trailer_data.youtube_id
    ELSE IF trailer_data.embed_url.form \in {"embed", "short"}
         THEN trailer_data.embed_url.id
    ELSE IF trailer_data.url.form \in {"watch", "short"}
         THEN trailer_data.url.id
    ELSE None

(* NFOProcessor._update_metadata(root, title), lines 146-157: the rating.  *)
(* The score is in tenths; 0 stands for every score that `if score:` takes *)
(* as false (0, None, no score at all).                                    *)
UpdateRating(root, id, score, force_update) ==
    LET found == Find(root, "rating")
        root1 == IF found = 0 THEN SubElement(root, id, "rating", None) ELSE root
        at    == IF found = 0 THEN Len(root1) ELSE found
    IN  IF score = 0
        THEN [root |-> root, next_id |-> id, changed |-> FALSE]
        ELSE IF root1[at].text # StrOfScore[score] \/ force_update
             THEN [root    |-> [root1 EXCEPT ![at].text = StrOfScore[score]],
                   next_id |-> IF found = 0 THEN id + 1 ELSE id,
                   changed |-> TRUE]
             ELSE [root    |-> root1,
                   next_id |-> IF found = 0 THEN id + 1 ELSE id,
                   changed |-> FALSE]

(* The genres as the tags are handled: rewritten only when the stored set  *)
(* differs from the fetched one.                                           *)
UpdateGenres_CompareFirst(root, id, genres_data) ==
    LET existing == {e.text : e \in {x \in Range(FindAll(root, "genre")) : Truthy(x.text)}}
        fetched  == {n \in Range(genres_data) : Truthy(n)}
    IN  IF genres_data # <<>> /\ existing # fetched
        THEN LET added == AddNamed(RemoveAll(root, "genre"), id, "genre", genres_data)
             IN  [root |-> added.root, next_id |-> added.next_id, changed |-> TRUE]
        ELSE [root |-> root, next_id |-> id, changed |-> FALSE]

\* Genres that would be appended to the stored ones instead of replacing them.
UpdateGenres_KeepsStored(root, id, genres_data) ==
    IF genres_data # <<>>
    THEN LET added == AddNamed(root, id, "genre", genres_data)
         IN  [root |-> added.root, next_id |-> added.next_id, changed |-> TRUE]
    ELSE [root |-> root, next_id |-> id, changed |-> FALSE]

(* lines 159-176: the genres.                                              *)
UpdateGenres(root, id, genres_data) ==
    IF genres_data # <<>>
    THEN LET added == AddNamed(RemoveAll(root, "genre"), id, "genre", genres_data)
         IN  [root |-> added.root, next_id |-> added.next_id, changed |-> TRUE]
    ELSE [root |-> root, next_id |-> id, changed |-> FALSE]

\* Tags that would be rewritten only when the sets differ, forced or not.
UpdateTags_IgnoresForce(root, id, themes_data, force_update) ==
    LET existing_tags == {e.text : e \in {x \in Range(FindAll(root, "tag")) : Truthy(x.text)}}
        theme_names   == {n \in Range(themes_data) : Truthy(n)}
    IN  IF themes_data # <<>> /\ existing_tags # theme_names
        THEN LET added == AddNamed(RemoveAll(root, "tag"), id, "tag", themes_data)
             IN  [root |-> added.root, next_id |-> added.next_id, changed |-> TRUE]
        ELSE [root |-> root, next_id |-> id, changed |-> FALSE]

(* lines 178-204: the tags.                                                *)
UpdateTags(root, id, themes_data, force_update) ==
    LET existing_tags == {e.text : e \in {x \in Range(FindAll(root, "tag")) : Truthy(x.text)}}
        theme_names   == {n \in Range(themes_data) : Truthy(n)}
    IN  IF themes_data # <<>> /\ (existing_tags # theme_names \/ force_update)
        THEN LET added == AddNamed(RemoveAll(root, "tag"), id, "tag", themes_data)
             IN  [root |-> added.root, next_id |-> added.next_id, changed |-> TRUE]
        ELSE [root |-> root, next_id |-> id, changed |-> FALSE]

(* lines 206-246: the trailer.                                             *)
ResolveYoutubeId(trailer_data, youtube_api, search_answer) ==
    IF youtube_api
    THEN IF Truthy(ExtractYoutubeId(trailer_data))
         THEN ExtractYoutubeId(trailer_data)
         ELSE search_answer
    ELSE None

\* A trailer that would be rewritten only when the stored value differs.
UpdateTrailer_IgnoresForce(root, id, youtube_id, force_update) ==
    LET found == Find(root, "trailer")
    IN  IF ~Truthy(youtube_id)
        THEN [root |-> root, next_id |-> id, changed |-> FALSE]
        ELSE IF found = 0
        THEN [root    |-> SubElement(root, id, "trailer", TrailerUrl(youtube_id)),
              next_id |-> id + 1, changed |-> TRUE]
        ELSE IF root[found].text # TrailerUrl(youtube_id)
        THEN [root    |-> [root EXCEPT ![found].text = TrailerUrl(youtube_id)],
              next_id |-> id, changed |-> TRUE]
        ELSE [root |-> root, next_id |-> id, changed |-> FALSE]

UpdateTrailer(root, id, youtube_id, force_update) ==
    LET found == Find(root, "trailer")
    IN  IF ~Truthy(youtube_id)
        THEN [root |-> root, next_id |-> id, changed |-> FALSE]
        ELSE IF found = 0
        THEN [root    |-> SubElement(root, id, "trailer", TrailerUrl(youtube_id)),
              next_id |-> id + 1, changed |-> TRUE]
        ELSE IF root[found].text # TrailerUrl(youtube_id) \/ force_update
        THEN [root    |-> [root EXCEPT ![found].text = TrailerUrl(youtube_id)],
              next_id |-> id, changed |-> TRUE]
        ELSE [root |-> root, next_id |-> id, changed |-> FALSE]

\* lines 129-130: float(rating_elem.text) raises ValueError.
RatingRaises(root) ==
    LET rating_elem == Find(root, "rating")
    IN  /\ rating_elem # 0
        /\ Truthy(root[rating_elem].text)
        /\ root[rating_elem].text \notin DOMAIN FloatOf

\* The call that leaves the document as it found it.
Untouched(root, id) ==
    [root |-> root, next_id |-> id, changed |-> FALSE,
     raised |-> FALSE, searched |-> FALSE, matched |-> FALSE,
     tags_updated |-> FALSE, trailer_updated |-> FALSE,
     video_searched |-> FALSE, errors |-> 0]

\* No match, counted as an error.
NoResults_CountsError(root, id) ==
    [Untouched(root, id) EXCEPT !.searched = TRUE, !.errors = 1]

\* lines 139-141: no response, no data or an empty data list: a warning,
\* return False.
NoResults(root, id) == [Untouched(root, id) EXCEPT !.searched = TRUE]

(* NFOProcessor._update_metadata(root, title): the children it leaves,     *)
(* what it returns, whether it raised inside (and caught), whether the     *)
(* catalog answered with a match, the calls it made and what it added to   *)
(* the errors counter.                                                     *)
UpdateMetadata(root, id, response, youtube_api, search_answer, force_update) ==
    IF RatingRaises(root) THEN [Untouched(root, id) EXCEPT !.raised = TRUE]
    ELSE IF response.kind # "data" THEN NoResults(root, id)
    ELSE
        LET r1 == UpdateRating(root, id, response.score, force_update)
            r2 == UpdateGenres(r1.root, r1.next_id, response.genres)
            r3 == UpdateTags(r2.root, r2.next_id, response.themes, force_update)
            youtube_id == ResolveYoutubeId(response.trailer, youtube_api, search_answer)
            r4 == UpdateTrailer(r3.root, r3.next_id, youtube_id, force_update)
        IN  [root    |-> r4.root,
             next_id |-> r4.next_id,
             changed |-> r1.changed \/ r2.changed \/ r3.changed \/ r4.changed,
             raised  |-> FALSE,
             searched |-> TRUE,
             matched |-> TRUE,
             tags_updated |-> r3.changed,
             trailer_updated |-> r4.changed,
             video_searched |-> youtube_api /\ ~Truthy(ExtractYoutubeId(response.trailer)),
             errors |-> 0]

\* Bounds of the model.
MaxChildren == 1   \* children of the root element before the first call
MaxUpdates  == 3   \* calls of _update_metadata on one document

\* The children a stored document may hold.
StoredChildren ==
    [tag : {"rating"}, text : {"8.5", "7.0", "bad"}]
        \cup [tag : {"genre"}, text : Names]
        \cup [tag : {"tag"}, text : Names]
        \cup [tag : {"trailer"}, text : {TrailerUrl("v1")}]

RECURSIVE ChildrenUpTo(_)
ChildrenUpTo(n) ==
    IF n = 0 THEN {<<>>}
    ELSE ChildrenUpTo(n - 1)
           \cup {Append(c, x) : c \in {d \in ChildrenUpTo(n - 1) : Len(d) = n - 1},
                                x \in StoredChildren}

\* The parsed document: every child is an object of its own.
Parsed(children) ==
    [i \in DOMAIN children |->
        [id |-> i, tag |-> children[i].tag, text |-> children[i].text]]

\* The name lists of an answer: no name twice.
NameLists ==
    {<<>>} \cup {<<n>> : n \in Names}
           \cup {p \in Names \X Names : p[1] # p[2]}

TrailerDescriptors ==
    {NoTrailer,
     [youtube_id |-> "v1", embed_url |-> Url("embed", "v1"), url |-> Url("watch", "v1")],
     [youtube_id |-> None, embed_url |-> Url("embed", "v1"), url |-> NoUrl],
     [youtube_id |-> None, embed_url |-> NoUrl, url |-> Url("watch", "v1")]}

NoAnswer    == [kind |-> "none", score |-> 0, genres |-> <<>>, themes |-> <<>>,
                trailer |-> NoTrailer]
EmptyAnswer == [NoAnswer EXCEPT !.kind = "empty"]
Answers ==
    {NoAnswer, EmptyAnswer}
        \cup [kind : {"data"}, score : {0, 85}, genres : NameLists,
              themes : NameLists, trailer : TrailerDescriptors]

EnrichUnused ==
    /\ e_root = <<>>
    /\ e_next_id = 1
    /\ e_response = NoAnswer
    /\ e_youtube_api = FALSE
    /\ e_search_answer = None
    /\ e_force_update = FALSE
    /\ e_before = <<>>
    /\ e_after = <<>>
    /\ e_outcomes = <<>>

EnrichStart ==
    /\ \E c \in ChildrenUpTo(MaxChildren) :
          /\ e_root = Parsed(c)
          /\ e_next_id = Len(c) + 1
    /\ e_response \in Answers
    /\ e_youtube_api \in BOOLEAN
    /\ e_search_answer \in {None, "v2"}
    \* the video search is asked only by a client that exists, and only when
    \* the descriptor yields no identifier: elsewhere its answer is not read
    /\ e_search_answer # None =>
          /\ e_youtube_api
          /\ e_response.kind = "data"
          /\ ~Truthy(ExtractYoutubeId(e_response.trailer))
    /\ e_force_update \in BOOLEAN
    /\ e_before = <<>>
    /\ e_after = <<>>
    /\ e_outcomes = <<>>

\* _update_metadata(root, title) on the document, the search answering
\* with response.
ApplyUpdate(response) ==
    /\ LET out == UpdateMetadata(e_root, e_next_id, response, e_youtube_api,
                                 e_search_answer, e_force_update)
       IN  /\ e_root' = out.root
           /\ e_next_id' = out.next_id
           /\ e_before' = Append(e_before, e_root)
           /\ e_after' = Append(e_after, out.root)
           /\ e_outcomes' = Append(e_outcomes, [f \in DOMAIN out \ {"root", "next_id"} |-> out[f]])
    /\ UNCHANGED <<e_response, e_youtube_api, e_search_answer, e_force_update>>

\* One call of _update_metadata(root, title) on the document.
UpdateMetadataCall ==
    /\ Len(e_outcomes) < MaxUpdates
    /\ ApplyUpdate(e_response)

----------------------------------------------------------------------------
(* Time.  One tick is 1/30 s, so that the 1/3 s request spacing, the 0.1 s *)
(* buffer, the 5 s cool-down and the 1.0 s batch delay are whole numbers.  *)

jikan_minute_limit == 60
jikan_second_limit == 3

TicksPerSecond == jikan_second_limit * 10
Minute         == 60 * TicksPerSecond
Buffer         == TicksPerSecond \div 10      \* the 0.1 s added to the minute wait
CoolDown       == 5 * TicksPerSecond          \* time.sleep(5) after HTTP 429
batch_delay    == 1 * TicksPerSecond          \* options.get('batch_delay', 1.0)

\* Bounds of the model.
MaxCalls     == 62    \* requests sent in one behaviour
MaxIdles     == 1     \* caller pauses in one behaviour
MaxThrottled == 1     \* HTTP 429 answers in one behaviour

\* The pauses a caller may take between two steps: 1/6 s and 40.5 s.
IdleChoices == {5, 1215}

----------------------------------------------------------------------------
(* JikanAPI._apply_rate_limits: the history it leaves and the time at      *)
(* which it returns, called at time t with history h.                      *)

ApplyRateLimits(h, t, minute_limit, second_limit) ==
    LET pruned   == SelectSeq(h, LAMBDA x : t - x < Minute)
        interval == TicksPerSecond \div second_limit
        recent   == SelectSeq(pruned, LAMBDA x : t - x < interval)
    IN  IF Len(pruned) >= minute_limit
        THEN [requests |-> <<>>,
              time     |-> t + (Minute - (t - SeqMin(pruned)) + Buffer)]
        ELSE IF recent # <<>>
             THEN LET wait_time == interval - (t - SeqMax(recent))
                  IN  [requests |-> pruned,
                       time     |-> IF wait_time > 0 THEN t + wait_time ELSE t]
             ELSE [requests |-> pruned, time |-> t]

(* make_request, lines 96-110: wait for the limiter, record the timestamp, *)
(* count the call, sleep the batch delay and send the request.  h, calls   *)
(* and rec are the history, the counter and the record it starts from.     *)
SendRequest(h, t, calls, rec) ==
    LET lim == ApplyRateLimits(h, t, jikan_minute_limit, jikan_second_limit)
        out == IF rate_batch_mode /\ batch_delay > 0
               THEN lim.time + batch_delay ELSE lim.time
    IN  /\ jikan_requests' = Append(lim.requests, lim.time)
        /\ current_time' = lim.time
        /\ jikan_api_calls' = calls + 1
        /\ recorded' = Append(rec, lim.time)
        /\ now' = out
        /\ sent' = Append(sent, out)
        /\ rpc' = "awaiting"

RateStart ==
    /\ now = 0
    /\ jikan_requests = <<>>
    /\ current_time = 0
    /\ jikan_api_calls = 0
    /\ rpc = "idle"
    /\ last_result = "nothing"
    /\ recorded = <<>>
    /\ sent = <<>>
    /\ idles = 0
    /\ throttled = 0
    /\ frames = 0
    /\ last_status = "none"

\* A client that no specification but SpecRate uses.
RateUnused == RateStart /\ rate_batch_mode = FALSE


\* The caller lets some time pass between two requests.
Idle ==
    /\ rpc = "idle"
    /\ idles < MaxIdles
    /\ \E d \in IdleChoices : now' = now + d
    /\ idles' = idles + 1
    /\ UNCHANGED <<jikan_requests, current_time, jikan_api_calls, rate_batch_mode,
                   rpc, last_result, recorded, sent, throttled, frames, last_status>>

\* search_anime -> make_request, up to the moment the request is out.
MakeRequest ==
    /\ rpc = "idle"
    /\ Len(sent) < MaxCalls
    /\ SendRequest(jikan_requests, now, jikan_api_calls, recorded)
    /\ frames' = 1
    /\ UNCHANGED <<rate_batch_mode, last_result, idles, throttled, last_status>>

\* HTTP 200: make_request returns response.json().
Response200 ==
    /\ rpc = "awaiting"
    /\ rpc' = "idle"
    /\ last_result' = "json"
    /\ frames' = 0
    /\ last_status' = "200"
    /\ UNCHANGED <<now, jikan_requests, current_time, jikan_api_calls,
                   rate_batch_mode, recorded, sent, idles, throttled>>

\* A failure answered as HTTP 429 is: with another request.
ResponseFailure_Retries ==
    /\ rpc = "awaiting"
    /\ Len(sent) < MaxCalls
    /\ frames' = frames + 1
    /\ last_status' = "error"
    /\ SendRequest(jikan_requests, now, jikan_api_calls, recorded)
    /\ UNCHANGED <<rate_batch_mode, last_result, idles, throttled>>

\* Any other status than 200 and 429, or a RequestException: returns None.
ResponseFailure ==
    /\ rpc = "awaiting"
    /\ rpc' = "idle"
    /\ last_result' = "None"
    /\ frames' = 0
    /\ last_status' = "error"
    /\ UNCHANGED <<now, jikan_requests, current_time, jikan_api_calls,
                   rate_batch_mode, recorded, sent, idles, throttled>>

(* The depth at which the interpreter refuses another call and raises      *)
(* RecursionError: sys.getrecursionlimit(), 1000 unless the program sets   *)
(* it, and the program never does.  Only the make_request activations are  *)
(* counted; the frames of its callers and callees make the refusal come    *)
(* earlier.                                                                *)
RecursionLimit == 1000

\* lines 112-119: HTTP 429 arrived; the history and the counter after the
\* cool-down, before the call of line 120.
AfterCoolDown ==
    LET pop == jikan_requests # <<>>
               /\ jikan_requests[Len(jikan_requests)] = current_time
    IN  [requests |-> IF pop THEN Front(jikan_requests) ELSE jikan_requests,
         time     |-> now + CoolDown,
         calls    |-> jikan_api_calls - 1,
         recorded |-> IF pop THEN Front(recorded) ELSE recorded]

\* HTTP 429: sleep 5 s, discard the timestamp, uncount the call and call
\* make_request again, which runs up to the moment its request is out.
Retry429 ==
    /\ rpc = "awaiting"
    /\ frames < RecursionLimit
    /\ throttled' = throttled + 1
    /\ frames' = frames + 1
    /\ last_status' = "429"
    /\ SendRequest(AfterCoolDown.requests, AfterCoolDown.time,
                   AfterCoolDown.calls, AfterCoolDown.recorded)
    /\ UNCHANGED <<rate_batch_mode, last_result, idles>>

Response429 ==
    /\ throttled < MaxThrottled
    /\ Len(sent) < MaxCalls
    /\ Retry429

(* HTTP 429 with the call stack full: RecursionError, which no `except     *)
(* RequestException` of the activations catches; it leaves make_request    *)
(* and search_anime.  Where the interpreter refuses depends on the depth   *)
(* of the callees: at the call of line 120 itself, or inside the new       *)
(* activation at requests.get (line 107), below which the call chain is    *)
(* the longest; by then the activation has recorded its timestamp and      *)
(* counted its call (lines 100-102) and no request has gone out.           *)
RecursionErrorSites == {"call", "request"}

RecursionErrorRaised ==
    /\ rpc = "awaiting"
    /\ frames >= RecursionLimit
    /\ throttled' = throttled + 1
    /\ frames' = 0
    /\ last_status' = "429"
    /\ \E site \in RecursionErrorSites :
          LET lim == ApplyRateLimits(AfterCoolDown.requests, AfterCoolDown.time,
                                     jikan_minute_limit, jikan_second_limit)
          IN  IF site = "call"
              THEN /\ now' = AfterCoolDown.time
                   /\ jikan_requests' = AfterCoolDown.requests
                   /\ jikan_api_calls' = AfterCoolDown.calls
                   /\ recorded' = AfterCoolDown.recorded
                   /\ UNCHANGED current_time
              ELSE /\ now' = IF rate_batch_mode /\ batch_delay > 0
                             THEN lim.time + batch_delay ELSE lim.time
                   /\ jikan_requests' = Append(lim.requests, lim.time)
                   /\ jikan_api_calls' = AfterCoolDown.calls + 1
                   /\ recorded' = Append(AfterCoolDown.recorded, lim.time)
                   /\ current_time' = lim.time
    /\ rpc' = "idle"
    /\ last_result' = "RecursionError"
    /\ UNCHANGED <<rate_batch_mode, sent, idles>>

\* One search_anime(title) on a fresh client.
FirstSearch == sent = <<>> /\ MakeRequest

----------------------------------------------------------------------------
(* The updater's run over the folders.  A folder is its index in the       *)
(* sorted list get_anime_folders returns; the files of a folder are read   *)
(* when the traversal reaches them.  A tvshow.nfo is "ok", "notitle" (well *)
(* formed, no title text), "malformed" (ET.ParseError) or "unreadable"     *)
(* (open or decode fails); an episode file is "ok", "notepisode" (root tag *)
(* other than episodedetails), "malformed" or "unreadable".  Writes are    *)
(* taken to succeed.                                                       *)

RootHealths    == {"ok", "notitle", "malformed", "unreadable"}
EpisodeHealths == {"ok", "notepisode", "malformed", "unreadable"}
RootMpaas      == {None, "PG"}
EpisodeMpaas   == {None, "PG", "R"}

\* What _update_metadata came back with: a change, no change, or False after
\* a provider failure it caught.
ProviderOutcomes == {"changed", "unchanged", "failed"}

\* Bounds of the model.
MaxFolders  == 2   \* folders holding a tvshow.nfo
MaxEpisodes == 1   \* episode files in one folder

Flags == {"translate_only", "rating_only", "skip_translate", "sync_mpaa",
          "remove_mpaa", "translate_episodes", "episodes_only", "batch_mode",
          "force_update"}

\* The flag combinations of the command line the model runs.
FlagSets ==
    {{}} \cup {{f} : f \in Flags}
         \cup {{"sync_mpaa", "force_update"}, {"sync_mpaa", "remove_mpaa"},
               {"episodes_only", "batch_mode"}, {"translate_episodes", "skip_translate"}}

\* The <<folder_offset, max_folders>> pairs of the command line the model runs.
WindowChoices == {<<0, 0>>, <<1, 0>>, <<0, 1>>, <<1, 1>>}

MakeOptions(S, offset, limit) ==
    [translate_only     |-> "translate_only" \in S,
     rating_only        |-> "rating_only" \in S,
     skip_translate     |-> "skip_translate" \in S,
     sync_mpaa          |-> "sync_mpaa" \in S,
     remove_mpaa        |-> "remove_mpaa" \in S,
     translate_episodes |-> "translate_episodes" \in S,
     episodes_only      |-> "episodes_only" \in S,
     batch_mode         |-> "batch_mode" \in S,
     force_update       |-> "force_update" \in S,
     folder_offset      |-> offset,
     max_folders        |-> limit]

\* AnimeMetadataUpdater.__init__, lines 70-79
IsDefaultMode(o) ==
    /\ ~o.translate_only /\ ~o.rating_only /\ ~o.skip_translate
    /\ ~o.sync_mpaa /\ ~o.remove_mpaa /\ ~o.translate_episodes
    /\ ~o.episodes_only /\ ~o.batch_mode

\* A run that would test the window before the MPAA flags.
ModeOf_WindowFirst(o) ==
    IF o.max_folders > 0 \/ o.folder_offset > 0 THEN "Windowed"
    ELSE IF o.sync_mpaa \/ o.remove_mpaa THEN "MPAA"
    ELSE "Walk"

\* run(), lines 122-137: the branch taken.
ModeOf(o) ==
    IF o.sync_mpaa \/ o.remove_mpaa THEN "MPAA"
    ELSE IF o.max_folders > 0 \/ o.folder_offset > 0 THEN "Windowed"
    ELSE "Walk"

\* The MPAA run selects a window under the same condition (lines 47-57).
Limited(o) == o.max_folders > 0 \/ o.folder_offset > 0

ZeroStats ==
    [processed_files |-> 0, episodes_processed |-> 0, episodes_translated |-> 0,
     episodes_updated |-> 0, batch_operations |-> 0, folders_processed |-> 0,
     folders_skipped_limit |-> 0, folders_skipped_offset |-> 0, errors |-> 0]

\* UpdaterStats.increment
Increment(st, stat_name, amount) == [st EXCEPT ![stat_name] = @ + amount]

\* `by` names the processor that handled the file: NFOProcessor holds the
\* catalog, translation and video clients, EpisodeProcessor the translation
\* client, MPAAProcessor (mpaa_processor.py lines 25-35) holds none.
NoFile ==
    [kind |-> "none", by |-> "none", health |-> "ok", changed |-> FALSE, wrote |-> FALSE]

(* _get_mpaa_from_tvshow of both processors, read without counting an      *)
(* error: the stripped text of <mpaa>, None when there is none or the file *)
(* cannot be read or parsed.                                               *)
GetMpaaFromTvshow_CountsError(health, mpaa) ==
    IF health \in {"malformed", "unreadable"}
    THEN [value |-> None, errors |-> 1]
    ELSE [value |-> mpaa, errors |-> 0]

GetMpaaFromTvshow(health, mpaa) ==
    IF health \in {"malformed", "unreadable"}
    THEN [value |-> None, errors |-> 0]
    ELSE [value |-> mpaa, errors |-> 0]

(* NFOProcessor.process_nfo_file with a write whatever the steps returned. *)
ProcessNfoFile_AlwaysWrites(health, o, claude, provider, translations_updated) ==
    IF health = "unreadable"
    THEN [changed |-> FALSE, wrote |-> FALSE, raised |-> TRUE, errors |-> 0, processed |-> 0]
    ELSE IF health = "malformed"
    THEN [changed |-> FALSE, wrote |-> FALSE, raised |-> FALSE, errors |-> 1, processed |-> 0]
    ELSE IF health = "notitle"
    THEN [changed |-> FALSE, wrote |-> FALSE, raised |-> FALSE, errors |-> 0, processed |-> 0]
    ELSE LET metadata_updated == ~o.translate_only /\ provider = "changed"
             should_translate == ~o.rating_only /\ ~o.skip_translate /\ claude
             changes_made     == metadata_updated \/ (should_translate /\ translations_updated)
         IN  [changed |-> changes_made, wrote |-> TRUE, raised |-> FALSE,
              errors |-> 0, processed |-> 1]

(* NFOProcessor.process_nfo_file: what it returned, whether it called      *)
(* write_xml_file, whether an exception left it, and what it added to the  *)
(* errors and processed_files counters.                                    *)
ProcessNfoFile(health, o, claude, provider, translations_updated) ==
    IF health = "unreadable"
    THEN [changed |-> FALSE, wrote |-> FALSE, raised |-> TRUE, errors |-> 0, processed |-> 0]
    ELSE IF health = "malformed"
    THEN [changed |-> FALSE, wrote |-> FALSE, raised |-> FALSE, errors |-> 1, processed |-> 0]
    ELSE IF health = "notitle"
    THEN [changed |-> FALSE, wrote |-> FALSE, raised |-> FALSE, errors |-> 0, processed |-> 0]
    ELSE LET metadata_updated == ~o.translate_only /\ provider = "changed"
             should_translate == ~o.rating_only /\ ~o.skip_translate /\ claude
             changes_made     == metadata_updated \/ (should_translate /\ translations_updated)
         IN  [changed |-> changes_made, wrote |-> changes_made, raised |-> FALSE,
              errors |-> 0, processed |-> 1]

(* EpisodeProcessor.process_episode_nfo.  translated says whether the      *)
(* translation of the title or the plot came back with a new text.         *)
ProcessEpisodeNfo(health, ep_mpaa, tv_health, tv_mpaa, o, default_mode, claude, translated) ==
    IF health \in {"malformed", "unreadable"}
    THEN [changed |-> FALSE, wrote |-> FALSE, errors |-> 1, processed |-> 0]
    ELSE IF health = "notepisode"
    THEN [changed |-> FALSE, wrote |-> FALSE, errors |-> 0, processed |-> 0]
    ELSE LET mpaa_value == GetMpaaFromTvshow(tv_health, tv_mpaa)
             mpaa_set   == default_mode /\ Truthy(mpaa_value.value)
                                        /\ ep_mpaa # mpaa_value.value
             should_translate == ~o.skip_translate /\ ~o.rating_only /\ claude
             changes_made == mpaa_set \/ (should_translate /\ translated)
         IN  [changed |-> changes_made, wrote |-> changes_made,
              errors |-> IF default_mode THEN mpaa_value.errors ELSE 0,
              processed |-> 1]

(* MPAAProcessor._add_mpaa_to_episode                                      *)
AddMpaaToEpisode(health, ep_mpaa, mpaa_value, force_update) ==
    IF health \in {"malformed", "unreadable"}
    THEN [changed |-> FALSE, wrote |-> FALSE, errors |-> 1]
    ELSE IF health = "notepisode"
    THEN [changed |-> FALSE, wrote |-> FALSE, errors |-> 0]
    ELSE LET update == ep_mpaa # mpaa_value \/ force_update
         IN  [changed |-> update, wrote |-> update, errors |-> 0]

(* MPAAProcessor._remove_mpaa_from_episode                                 *)
RemoveMpaaFromEpisode(health, ep_mpaa) ==
    IF health \in {"malformed", "unreadable"}
    THEN [changed |-> FALSE, wrote |-> FALSE, errors |-> 1]
    ELSE IF health = "notepisode"
    THEN [changed |-> FALSE, wrote |-> FALSE, errors |-> 0]
    ELSE [changed |-> ep_mpaa # None, wrote |-> ep_mpaa # None, errors |-> 0]

NothingMet == [roots |-> 0, malformed_roots |-> 0, irregular |-> FALSE]

\* The traversal reaches a folder whose tvshow.nfo is in the given state.
MetRoot(f, health) ==
    [roots           |-> f.roots + 1,
     malformed_roots |-> f.malformed_roots + (IF health = "malformed" THEN 1 ELSE 0),
     irregular       |-> f.irregular \/ health \in {"unreadable", "notitle"}]

RunUnused ==
    /\ options = MakeOptions({}, 0, 0)
    /\ claude_api = FALSE
    /\ is_default_mode = FALSE
    /\ num_folders = 0
    /\ pc = "Start"
    /\ mode = "None"
    /\ todo = <<>>
    /\ root_health = "ok"
    /\ root_mpaa = None
    /\ episodes_left = 0
    /\ stats = ZeroStats
    /\ summaries = 0
    /\ last = NoFile
    /\ fs = NothingMet

\* The updater as AnimeMetadataUpdater.__init__ leaves it.
RunStart ==
    /\ \E S \in FlagSets, w \in WindowChoices :
          LET o == MakeOptions(S, w[1], w[2])
          IN  /\ is_default_mode = IsDefaultMode(o)
              /\ options = IF IsDefaultMode(o)
                           THEN [o EXCEPT !.translate_episodes = TRUE]
                           ELSE o
    /\ claude_api \in BOOLEAN
    /\ num_folders \in 0..MaxFolders
    /\ pc = "Start"
    /\ mode = "None"
    /\ todo = <<>>
    /\ root_health = "ok"
    /\ root_mpaa = None
    /\ episodes_left = 0
    /\ stats = ZeroStats
    /\ summaries = 0
    /\ last = NoFile
    /\ fs = NothingMet

(* run(), lines 119-137, with the head of _process_with_folder_limits      *)
(* (149-168) or of process_mpaa_tags (44-67): the folders to visit.        *)
Run ==
    /\ pc = "Start"
    /\ LET all_folders == [i \in 1..num_folders |-> i]
           sub == GetFolderSubset(all_folders, options.folder_offset, options.max_folders)
           selected == IF Limited(options) THEN sub.subset ELSE all_folders
       IN  /\ mode' = ModeOf(options)
           /\ todo' = selected
           /\ stats' = IF Limited(options)
                       THEN [stats EXCEPT !.folders_skipped_offset = sub.skipped_offset,
                                          !.folders_skipped_limit = sub.skipped_limit]
                       ELSE stats
           /\ pc' = IF selected = <<>> THEN "Summarize" ELSE "Folder"
    /\ UNCHANGED <<options, claude_api, is_default_mode, num_folders, root_health,
                   root_mpaa, episodes_left, summaries, last, fs>>

\* The walk counts a folder when it reaches it (lines 185, 77), the window
\* loop when it is through with it (lines 173, 72).
Enter(st) == IF Limited(options) THEN st ELSE Increment(st, "folders_processed", 1)

FolderDone(st) ==
    /\ stats' = IF Limited(options) THEN Increment(st, "folders_processed", 1) ELSE st
    /\ todo' = Tail(todo)
    /\ pc' = IF Tail(todo) = <<>> THEN "Summarize" ELSE "Folder"

Batch(st) == IF options.batch_mode THEN Increment(st, "batch_operations", 1) ELSE st

(* _process_single_folder, lines 230-247, and _process_all_folders, lines  *)
(* 184-202: the tvshow.nfo of the next folder.                             *)
ProcessRoot ==
    /\ pc = "Folder"
    /\ mode # "MPAA"
    /\ \E health \in RootHealths, mpaa \in RootMpaas,
          provider \in ProviderOutcomes, translations_updated \in BOOLEAN :
          LET res == ProcessNfoFile(health, options, claude_api, provider,
                                    translations_updated)
              caught == IF res.raised THEN 1 ELSE 0
              st1 == IF options.episodes_only
                     THEN Enter(stats)
                     ELSE Increment(Increment(Batch(Enter(stats)),
                                              "errors", res.errors + caught),
                                    "processed_files", res.processed)
          IN  /\ root_health' = health
              /\ root_mpaa' = mpaa
              /\ fs' = MetRoot(fs, health)
              /\ last' = IF options.episodes_only THEN last
                         ELSE [kind |-> "root", by |-> "NFOProcessor", health |-> health,
                               changed |-> res.changed, wrote |-> res.wrote]
              /\ IF options.translate_episodes \/ options.episodes_only \/ is_default_mode
                 THEN stats' = st1 /\ pc' = "List" /\ UNCHANGED todo
                 ELSE FolderDone(st1)
    /\ UNCHANGED <<options, claude_api, is_default_mode, num_folders, mode,
                   episodes_left, summaries>>

(* get_episode_files(folder), called outside every try block (updater.py   *)
(* lines 204 and 249, mpaa_processor.py line 105): os.listdir either       *)
(* raises, and the exception leaves run(), or returns the episode files.   *)
ListEpisodes ==
    /\ pc = "List"
    /\ \/ /\ pc' = "Fatal"
          /\ fs' = [fs EXCEPT !.irregular = TRUE]
          /\ UNCHANGED <<todo, stats, episodes_left>>
       \/ \E n \in 0..MaxEpisodes :
             /\ episodes_left' = n
             /\ IF n = 0
                THEN FolderDone(stats)
                ELSE pc' = "Episode" /\ UNCHANGED <<todo, stats>>
             /\ UNCHANGED fs
    /\ UNCHANGED <<options, claude_api, is_default_mode, num_folders, mode,
                   root_health, root_mpaa, summaries, last>>

\* The loops over the episode files (updater.py lines 209-220, 254-265).
ProcessEpisode ==
    /\ pc = "Episode"
    /\ mode # "MPAA"
    /\ \E health \in EpisodeHealths, ep_mpaa \in EpisodeMpaas, translated \in BOOLEAN :
          LET res == ProcessEpisodeNfo(health, ep_mpaa, root_health, root_mpaa, options,
                                       is_default_mode, claude_api, translated)
              st1 == Increment(Increment(Increment(Batch(stats),
                                  "episodes_processed", res.processed),
                                  "episodes_translated", IF res.changed THEN 1 ELSE 0),
                                  "errors", res.errors)
          IN  /\ last' = [kind |-> "episode", by |-> "EpisodeProcessor",
                          health |-> health,
                          changed |-> res.changed, wrote |-> res.wrote]
              /\ fs' = [fs EXCEPT !.irregular = @ \/ health \in {"malformed", "unreadable"}]
              /\ episodes_left' = episodes_left - 1
              /\ IF episodes_left = 1
                 THEN FolderDone(st1)
                 ELSE stats' = st1 /\ UNCHANGED <<todo, pc>>
    /\ UNCHANGED <<options, claude_api, is_default_mode, num_folders, mode,
                   root_health, root_mpaa, summaries>>

\* MPAAProcessor._process_mpaa_for_folder, lines 87-102.
MpaaFolder ==
    /\ pc = "Folder"
    /\ mode = "MPAA"
    /\ \E health \in RootHealths, mpaa \in RootMpaas :
          LET mpaa_value == GetMpaaFromTvshow(health, mpaa)
              st1 == IF options.sync_mpaa
                     THEN Increment(Enter(stats), "errors", mpaa_value.errors)
                     ELSE Enter(stats)
          IN  /\ root_health' = health
              /\ root_mpaa' = mpaa
              /\ fs' = MetRoot(fs, health)
              /\ IF options.sync_mpaa /\ ~Truthy(mpaa_value.value)
                 THEN FolderDone(st1)
                 ELSE stats' = st1 /\ pc' = "List" /\ UNCHANGED todo
    /\ UNCHANGED <<options, claude_api, is_default_mode, num_folders, mode,
                   episodes_left, summaries, last>>

\* MPAAProcessor._process_mpaa_for_folder, lines 114-130.
MpaaEpisode ==
    /\ pc = "Episode"
    /\ mode = "MPAA"
    /\ \E health \in EpisodeHealths, ep_mpaa \in EpisodeMpaas :
          LET res == IF options.sync_mpaa
                     THEN AddMpaaToEpisode(health, ep_mpaa,
                              GetMpaaFromTvshow(root_health, root_mpaa).value,
                              options.force_update)
                     ELSE RemoveMpaaFromEpisode(health, ep_mpaa)
              st1 == Increment(Increment(Batch(stats),
                                  "episodes_updated", IF res.changed THEN 1 ELSE 0),
                                  "errors", res.errors)
          IN  /\ last' = [kind |-> "episode", by |-> "MPAAProcessor",
                          health |-> health,
                          changed |-> res.changed, wrote |-> res.wrote]
              /\ fs' = [fs EXCEPT !.irregular = @ \/ health \in {"malformed", "unreadable"}]
              /\ episodes_left' = episodes_left - 1
              /\ IF episodes_left = 1
                 THEN FolderDone(st1)
                 ELSE stats' = st1 /\ UNCHANGED <<todo, pc>>
    /\ UNCHANGED <<options, claude_api, is_default_mode, num_folders, mode,
                   root_health, root_mpaa, summaries>>

\* self.stats.print_summary(self.options), lines 124 and 140; run() returns.
Summarize ==
    /\ pc = "Summarize"
    /\ summaries' = summaries + 1
    /\ pc' = "Done"
    /\ UNCHANGED <<options, claude_api, is_default_mode, num_folders, mode, todo,
                   root_health, root_mpaa, episodes_left, stats, last, fs>>

-----------------------------------------------------------------------------
(* Texts and the French heuristic (src/src/utils/language_utils.py).       *)
(* A text is a sequence of characters; a character is the string that      *)
(* names it, so that accented letters and capitals are told apart.  An     *)
(* absent element, a text of None and the empty string are all the empty   *)
(* sequence: the code only ever tests them with "not text".                *)

\* french_indicators, in the order of the source.
french_indicators ==
    << <<" ", "l", "e", " ">>,
       <<" ", "l", "a", " ">>,
       <<" ", "l", "e", "s", " ">>,
       <<" ", "d", "e", "s", " ">>,
       <<" ", "u", "n", " ">>,
       <<" ", "u", "n", "e", " ">>,
       <<" ", "d", "u", " ">>,
       <<" ", "d", "e", " ", "l", "a", " ">>,
       <<" ", "a_grave", " ">>,
       <<" ", "e", "s", "t", " ">>,
       <<"c_cedilla">>, <<"e_acute">>, <<"e_grave">>, <<"e_circumflex">>,
       <<"a_circumflex">>, <<"o_circumflex">>, <<"i_circumflex">>,
       <<"u_circumflex">>, <<"e_diaeresis">>, <<"i_diaeresis">>,
       <<"u_diaeresis">> >>

\* str.lower() on one character, for the capitals the texts here use.
LowerChar(c) ==
    CASE c = "L" -> "l"
      [] c = "E" -> "e"
      [] c = "E_ACUTE" -> "e_acute"
      [] OTHER -> c

\* text.lower()
Lower(text) == [i \in DOMAIN text |-> LowerChar(text[i])]

\* indicator occurs in text starting at position i
OccursAt(indicator, text, i) ==
    /\ i + Len(indicator) - 1 <= Len(text)
    /\ SubSeq(text, i, i + Len(indicator) - 1) = indicator

\* "indicator in text_lower"
Contains(indicator, text) == \E i \in 1..Len(text) : OccursAt(indicator, text, i)

\* sum(1 for indicator in french_indicators if indicator in text_lower)
FrenchIndicatorsFound(text) ==
    Cardinality({k \in DOMAIN french_indicators :
                    Contains(french_indicators[k], Lower(text))})

\* A variant that adds up every occurrence of every indicator.
AppearsToBeFrench_CountsOccurrences(text) ==
    LET text_lower == Lower(text)
        hits == {p \in (DOMAIN french_indicators) \X (1..Len(text)) :
                    OccursAt(french_indicators[p[1]], text_lower, p[2])}
    IN  IF text = <<>> THEN FALSE ELSE Cardinality(hits) > 2

\* appears_to_be_french(text)
AppearsToBeFrench(text) ==
    IF text = <<>> THEN FALSE ELSE FrenchIndicatorsFound(text) > 2

\* The characters and the length of the texts the heuristic is applied to.
TextAlphabet == {" ", "l", "e", "e_acute", "E_ACUTE", "c_cedilla", "e_grave"}
MaxTextLen == 4
TextsUpTo(n) == UNION {[1..k -> TextAlphabet] : k \in 0..n}

LangUnused ==
    /\ l_text = <<>>
    /\ l_result = FALSE
    /\ lpc = "ready"

LangStart ==
    /\ l_text \in TextsUpTo(MaxTextLen)
    /\ l_result = FALSE
    /\ lpc = "ready"

\* One call of appears_to_be_french on the text.
AppearsToBeFrenchCall ==
    /\ lpc = "ready"
    /\ l_result' = AppearsToBeFrench(l_text)
    /\ lpc' = "done"
    /\ UNCHANGED l_text

-----------------------------------------------------------------------------
(* Translation (src/src/api/claude_api.py) of the plot and outline of a    *)
(* tvshow.nfo (NFOProcessor._translate_descriptions) and of the title and  *)
(* plot of an episode file (EpisodeProcessor.process_episode_nfo).         *)

\* text.strip(): the blanks at both ends removed
Strip(text) ==
    LET solid == {i \in DOMAIN text : text[i] # " "}
    IN  IF solid = {} THEN <<>>
        ELSE SubSeq(text, CHOOSE i \in solid : \A j \in solid : i <= j,
                          CHOOSE i \in solid : \A j \in solid : i >= j)

\* What translate_text handed back: None, or a text.
ReturnedNone == [called |-> TRUE, none |-> TRUE, text |-> <<>>]
Returned(text) == [called |-> TRUE, none |-> FALSE, text |-> text]
NotCalled == [called |-> FALSE, none |-> FALSE, text |-> <<>>]

\* What messages.create does with a request: it raises, or it answers.
ProviderAnswers ==
    {[kind |-> "exception", text |-> <<>>],
     [kind |-> "text", text |-> <<>>],
     [kind |-> "text", text |-> <<"l">>],
     [kind |-> "text", text |-> <<"l", "e", " ">>]}

\* ClaudeAPI.translate_text(text); requests counts the provider calls made
TranslateText(text, client, answer) ==
    IF text = <<>> \/ ~client
    THEN [result |-> ReturnedNone, requests |-> 0]
    ELSE IF answer.kind = "exception"
         THEN [result |-> ReturnedNone, requests |-> 1]
         ELSE [result |-> Returned(Strip(answer.text)), requests |-> 1]

\* A variant of lines 278-287 that counts the attempt as a change.
TranslateField_CountsAttempt(text, client, answer) ==
    IF text = <<>> \/ AppearsToBeFrench(Strip(text))
    THEN [text |-> text, changed |-> FALSE, returned |-> NotCalled, requests |-> 0]
    ELSE LET t == TranslateText(Strip(text), client, answer)
         IN  IF ~t.result.none /\ t.result.text # <<>>
             THEN [text |-> t.result.text, changed |-> TRUE,
                   returned |-> t.result, requests |-> t.requests]
             ELSE [text |-> text, changed |-> TRUE,
                   returned |-> t.result, requests |-> t.requests]

\* _translate_descriptions, lines 278-287 (plot) and 290-299 (outline)
TranslateField(text, client, answer) ==
    IF text = <<>> \/ AppearsToBeFrench(Strip(text))
    THEN [text |-> text, changed |-> FALSE, returned |-> NotCalled, requests |-> 0]
    ELSE LET t == TranslateText(Strip(text), client, answer)
         IN  IF ~t.result.none /\ t.result.text # <<>>
             THEN [text |-> t.result.text, changed |-> TRUE,
                   returned |-> t.result, requests |-> t.requests]
             ELSE [text |-> text, changed |-> FALSE,
                   returned |-> t.result, requests |-> t.requests]

\* _translate_descriptions(root) on the texts of <plot> and <outline>
TranslateDescriptions(plot, outline, client, answers) ==
    IF plot = <<>> /\ outline = <<>>
    THEN [fields |-> <<plot, outline>>, changed |-> FALSE,
          returned |-> <<NotCalled, NotCalled>>, requests |-> 0]
    ELSE LET p == TranslateField(plot, client, answers[1])
             o == TranslateField(outline, client, answers[2])
         IN  [fields |-> <<p.text, o.text>>, changed |-> p.changed \/ o.changed,
              returned |-> <<p.returned, o.returned>>,
              requests |-> p.requests + o.requests]

\* process_episode_nfo, lines 101-110 (title) and 113-123 (plot)
TranslateEpisodeField(text, client, answer) ==
    IF text = <<>> \/ Strip(text) = <<>> \/ AppearsToBeFrench(text)
    THEN [text |-> text, changed |-> FALSE, returned |-> NotCalled, requests |-> 0]
    ELSE LET t == TranslateText(Strip(text), client, answer)
         IN  IF ~t.result.none /\ t.result.text # <<>> /\ t.result.text # text
             THEN [text |-> t.result.text, changed |-> TRUE,
                   returned |-> t.result, requests |-> t.requests]
             ELSE [text |-> text, changed |-> FALSE,
                   returned |-> t.result, requests |-> t.requests]

\* process_episode_nfo, lines 100-123, on the texts of <title> and <plot>
TranslateEpisode(title, plot, client, answers) ==
    LET t == TranslateEpisodeField(title, client, answers[1])
        p == TranslateEpisodeField(plot, client, answers[2])
    IN  [fields |-> <<t.text, p.text>>, changed |-> t.changed \/ p.changed,
         returned |-> <<t.returned, p.returned>>,
         requests |-> t.requests + p.requests]

\* The texts a field may hold: none, blank, plain, padded, already French.
FieldTexts ==
    {<<>>, <<" ">>, <<"l">>, <<" ", "l", "e">>,
     <<"e_acute", "c_cedilla", "e_grave">>}

NoTranslation ==
    [fields |-> <<<<>>, <<>>>>, changed |-> FALSE,
     returned |-> <<NotCalled, NotCalled>>, requests |-> 0]

TranslateUnused ==
    /\ t_fields = <<<<>>, <<>>>>
    /\ t_client = FALSE
    /\ t_answers = <<[kind |-> "exception", text |-> <<>>],
                     [kind |-> "exception", text |-> <<>>]>>
    /\ t_kind = "none"
    /\ t_before = <<<<>>, <<>>>>
    /\ t_outcome = NoTranslation

TranslateStart ==
    /\ t_fields \in FieldTexts \X FieldTexts
    /\ t_client \in BOOLEAN
    /\ t_answers \in ProviderAnswers \X ProviderAnswers
    /\ t_kind = "none"
    /\ t_before = t_fields
    /\ t_outcome = NoTranslation

\* should_translate with no flag set: self.claude_api is not None
TranslateCall(kind, done) ==
    /\ t_kind = "none"
    /\ t_kind' = kind
    /\ t_outcome' = IF t_client THEN done
                    ELSE [NoTranslation EXCEPT !.fields = t_fields]
    /\ t_fields' = t_outcome'.fields
    /\ UNCHANGED <<t_client, t_answers, t_before>>

\* process_nfo_file, lines 86-94
TranslateRootCall ==
    TranslateCall("root",
        TranslateDescriptions(t_fields[1], t_fields[2], t_client, t_answers))

\* process_episode_nfo, lines 98-123
TranslateEpisodeCall ==
    TranslateCall("episode",
        TranslateEpisode(t_fields[1], t_fields[2], t_client, t_answers))

-----------------------------------------------------------------------------
(* MPAA sync and remove over one folder (src/src/processors/               *)
(* mpaa_processor.py).  The tvshow.nfo is known by the text of its <mpaa>  *)
(* element, an episode file by its root tag and the texts of its <mpaa>    *)
(* elements in document order.  Writes are taken to succeed and the        *)
(* folder to be listable.                                                  *)

PG == <<"P", "G">>
R == <<"R">>

\* The tvshow.nfo files met: unparsable, or parsed with this <mpaa> text.
TvshowFiles ==
    [health : {"ok"}, mpaa : {<<>>, <<" ">>, PG, <<" ", "P", "G", " ">>}]
        \cup {[health |-> "malformed", mpaa |-> <<>>]}

\* The episode files met.
EpisodeFiles ==
    [tag : {"episodedetails", "movie", "unparsable"},
     mpaa : {<<>>, <<PG>>, <<R>>, <<R, PG>>}]

MaxFolderEpisodes == 2
EpisodeLists == UNION {[1..n -> EpisodeFiles] : n \in 0..MaxFolderEpisodes}

\* (sync_mpaa, remove_mpaa, force_update) as the folder is processed
MpaaOptions ==
    {[sync_mpaa |-> TRUE, remove_mpaa |-> FALSE, force_update |-> FALSE],
     [sync_mpaa |-> TRUE, remove_mpaa |-> FALSE, force_update |-> TRUE],
     [sync_mpaa |-> FALSE, remove_mpaa |-> TRUE, force_update |-> FALSE],
     [sync_mpaa |-> TRUE, remove_mpaa |-> TRUE, force_update |-> FALSE]}

\* MPAAProcessor._get_mpaa_from_tvshow: the stripped text, or <<>> for None
MpaaFromTvshow(tvshow) ==
    IF tvshow.health = "ok" /\ tvshow.mpaa # <<>> THEN Strip(tvshow.mpaa) ELSE <<>>

\* MPAAProcessor._add_mpaa_to_episode on one file
AddMpaaToEpisodeFile(file, mpaa_value, force_update) ==
    IF file.tag = "unparsable"
    THEN [file |-> file, wrote |-> FALSE, errors |-> 1]
    ELSE IF file.tag # "episodedetails"
    THEN [file |-> file, wrote |-> FALSE, errors |-> 0]
    ELSE LET elems == IF file.mpaa = <<>> THEN <<<<>>>> ELSE file.mpaa
         IN  IF elems[1] # mpaa_value \/ force_update
             THEN [file |-> [file EXCEPT !.mpaa = [elems EXCEPT ![1] = mpaa_value]],
                   wrote |-> TRUE, errors |-> 0]
             ELSE [file |-> file, wrote |-> FALSE, errors |-> 0]

\* MPAAProcessor._remove_mpaa_from_episode on one file
RemoveMpaaFromEpisodeFile(file) ==
    IF file.tag = "unparsable"
    THEN [file |-> file, wrote |-> FALSE, errors |-> 1]
    ELSE IF file.tag # "episodedetails" \/ file.mpaa = <<>>
    THEN [file |-> file, wrote |-> FALSE, errors |-> 0]
    ELSE [file |-> [file EXCEPT !.mpaa = Tail(file.mpaa)],
          wrote |-> TRUE, errors |-> 0]

MpaaUnused ==
    /\ m_options = [sync_mpaa |-> FALSE, remove_mpaa |-> FALSE, force_update |-> FALSE]
    /\ m_tvshow = [health |-> "ok", mpaa |-> <<>>]
    /\ m_episodes = <<>>
    /\ m_before = <<>>
    /\ m_value = <<>>
    /\ m_pos = 0
    /\ m_errors = 0
    /\ m_updated = 0
    /\ mpc = "start"

MpaaStart ==
    /\ m_options \in MpaaOptions
    /\ m_tvshow \in TvshowFiles
    /\ m_episodes \in EpisodeLists
    /\ m_before = m_episodes
    /\ m_value = <<>>
    /\ m_pos = 0
    /\ m_errors = 0
    /\ m_updated = 0
    /\ mpc = "start"

\* _process_mpaa_for_folder, lines 87-111: up to the loop over the files
MpaaForFolder ==
    /\ mpc = "start"
    /\ LET mpaa_value == IF m_options.sync_mpaa THEN MpaaFromTvshow(m_tvshow) ELSE <<>>
       IN  /\ m_value' = mpaa_value
           /\ mpc' = IF m_options.sync_mpaa /\ mpaa_value = <<>> THEN "skipped"
                     ELSE IF m_episodes = <<>> THEN "done"
                     ELSE "episodes"
    /\ m_pos' = 1
    /\ UNCHANGED <<m_options, m_tvshow, m_episodes, m_before, m_errors, m_updated>>

\* One turn of the loop of lines 114-130.
MpaaForFile(done) ==
    /\ mpc = "episodes"
    /\ m_episodes' = [m_episodes EXCEPT ![m_pos] = done.file]
    /\ m_errors' = m_errors + done.errors
    /\ m_updated' = m_updated + (IF done.wrote THEN 1 ELSE 0)
    /\ m_pos' = m_pos + 1
    /\ mpc' = IF m_pos = Len(m_episodes) THEN "done" ELSE "episodes"
    /\ UNCHANGED <<m_options, m_tvshow, m_before, m_value>>

\* line 124-125: sync_mpaa comes first
MpaaSyncFile ==
    /\ m_options.sync_mpaa
    /\ mpc = "episodes"
    /\ MpaaForFile(AddMpaaToEpisodeFile(m_episodes[m_pos], m_value,
                                        m_options.force_update))

\* line 126-127
MpaaRemoveFile ==
    /\ ~m_options.sync_mpaa /\ m_options.remove_mpaa
    /\ mpc = "episodes"
    /\ MpaaForFile(RemoveMpaaFromEpisodeFile(m_episodes[m_pos]))

-----------------------------------------------------------------------------
(* One folder under _process_single_folder / _process_all_folders          *)
(* (src/src/core/updater.py): its tvshow.nfo, known by the texts of        *)
(* <title>, <plot> and <outline>, then one episode file, known by the      *)
(* texts of <title> and <plot> and the text of <mpaa>.  Both files parse;  *)
(* the stored rating of the tvshow.nfo is taken to be a number.            *)

\* The flag combinations of a run that is not an MPAA run.
FolderFlagSets ==
    {{}} \cup {{f} : f \in Flags \ {"sync_mpaa", "remove_mpaa"}}
         \cup {{"translate_only", "translate_episodes"},
               {"rating_only", "translate_episodes"},
               {"skip_translate", "translate_episodes"},
               {"episodes_only", "force_update"}}

\* The tvshow.nfo documents: the title absent or empty, blank, or given.
RootDocuments ==
    [title : {<<>>, <<" ">>, <<"l">>},
     plot : {<<>>, <<"l">>},
     outline : {<<>>, <<" ", "l", "e">>}]

EpisodeDocuments ==
    [title : {<<>>, <<"l">>}, plot : {<<"l">>}, mpaa : EpisodeMpaas]

\* What the provider does with the translation requests of a file.
FolderAnswers ==
    {<<[kind |-> "exception", text |-> <<>>], [kind |-> "exception", text |-> <<>>]>>,
     <<[kind |-> "text", text |-> <<"l", "e", " ">>], [kind |-> "text", text |-> <<"l">>]>>}

\* What a file's step did: the catalog searches it issued and the title it
\* searched for, the translation requests it sent, what it changed, what
\* it returned and whether it wrote the file; for an episode, the text of
\* <mpaa> it found.
Step(kind, searches, query, requests, metadata_changed, text_changed, mpaa_changed, wrote) ==
    [kind |-> kind, searches |-> searches, query |-> query, requests |-> requests,
     metadata_changed |-> metadata_changed, text_changed |-> text_changed,
     mpaa_changed |-> mpaa_changed, mpaa_before |-> None,
     changed |-> metadata_changed \/ text_changed \/ mpaa_changed,
     wrote |-> wrote]

\* process_nfo_file, lines 63-66: the title the file goes on with, <<>>
\* when the file is skipped
FindTitle(doc) == doc.title

\* A variant of process_nfo_file whose translation is not held back by
\* rating_only.
ProcessNfoDocument_RatingOnlyTranslates(doc, o, claude, provider, answers) ==
    IF FindTitle(doc) = <<>>
    THEN [doc |-> doc, step |-> Step("skipped", 0, <<>>, 0, FALSE, FALSE, FALSE, FALSE)]
    ELSE LET title == Strip(doc.title)
             searched == ~o.translate_only
             metadata_updated == searched /\ provider = "changed"
             should_translate == ~o.skip_translate /\ claude
             tr == IF should_translate
                   THEN TranslateDescriptions(doc.plot, doc.outline, claude, answers)
                   ELSE [NoTranslation EXCEPT !.fields = <<doc.plot, doc.outline>>]
         IN  [doc |-> [doc EXCEPT !.plot = tr.fields[1], !.outline = tr.fields[2]],
              step |-> Step("root", IF searched THEN 1 ELSE 0,
                            IF searched THEN title ELSE <<>>, tr.requests,
                            metadata_updated, tr.changed, FALSE,
                            metadata_updated \/ tr.changed)]

\* NFOProcessor.process_nfo_file, lines 62-109, on a file that parses
ProcessNfoDocument(doc, o, claude, provider, answers) ==
    IF FindTitle(doc) = <<>>
    THEN [doc |-> doc, step |-> Step("skipped", 0, <<>>, 0, FALSE, FALSE, FALSE, FALSE)]
    ELSE LET title == Strip(doc.title)
             searched == ~o.translate_only
             metadata_updated == searched /\ provider = "changed"
             should_translate == ~o.rating_only /\ ~o.skip_translate /\ claude
             tr == IF should_translate
                   THEN TranslateDescriptions(doc.plot, doc.outline, claude, answers)
                   ELSE [NoTranslation EXCEPT !.fields = <<doc.plot, doc.outline>>]
         IN  [doc |-> [doc EXCEPT !.plot = tr.fields[1], !.outline = tr.fields[2]],
              step |-> Step("root", IF searched THEN 1 ELSE 0,
                            IF searched THEN title ELSE <<>>, tr.requests,
                            metadata_updated, tr.changed, FALSE,
                            metadata_updated \/ tr.changed)]

\* An episode step that would inherit the rating only when <mpaa> is absent.
ProcessEpisodeDocument_KeepsStored(doc, tv_mpaa, o, default_mode, claude, answers) ==
    LET mpaa_set == default_mode /\ Truthy(tv_mpaa) /\ doc.mpaa = None
        should_translate == ~o.skip_translate /\ ~o.rating_only /\ claude
        tr == IF should_translate
              THEN TranslateEpisode(doc.title, doc.plot, claude, answers)
              ELSE [NoTranslation EXCEPT !.fields = <<doc.title, doc.plot>>]
    IN  [doc |-> [doc EXCEPT !.title = tr.fields[1], !.plot = tr.fields[2],
                             !.mpaa = IF mpaa_set THEN tv_mpaa ELSE @],
         step |-> [Step("episode", 0, <<>>, tr.requests, FALSE, tr.changed, mpaa_set,
                        mpaa_set \/ tr.changed) EXCEPT !.mpaa_before = doc.mpaa]]

\* EpisodeProcessor.process_episode_nfo, lines 71-145, on an episode file
ProcessEpisodeDocument(doc, tv_mpaa, o, default_mode, claude, answers) ==
    LET mpaa_set == default_mode /\ Truthy(tv_mpaa) /\ doc.mpaa # tv_mpaa
        should_translate == ~o.skip_translate /\ ~o.rating_only /\ claude
        tr == IF should_translate
              THEN TranslateEpisode(doc.title, doc.plot, claude, answers)
              ELSE [NoTranslation EXCEPT !.fields = <<doc.title, doc.plot>>]
    IN  [doc |-> [doc EXCEPT !.title = tr.fields[1], !.plot = tr.fields[2],
                             !.mpaa = IF mpaa_set THEN tv_mpaa ELSE @],
         step |-> [Step("episode", 0, <<>>, tr.requests, FALSE, tr.changed, mpaa_set,
                        mpaa_set \/ tr.changed) EXCEPT !.mpaa_before = doc.mpaa]]

FolderUnused ==
    /\ d_options = MakeOptions({}, 0, 0)
    /\ d_given = [claude |-> FALSE, provider |-> "failed", tv_mpaa |-> None,
                  answers |-> <<[kind |-> "exception", text |-> <<>>],
                                [kind |-> "exception", text |-> <<>>]>>]
    /\ d_root = [title |-> <<>>, plot |-> <<>>, outline |-> <<>>]
    /\ d_episode = [title |-> <<>>, plot |-> <<"l">>, mpaa |-> None]
    /\ d_steps = <<>>
    /\ dpc = "root"

FolderStart ==
    /\ \E S \in FolderFlagSets : d_options = MakeOptions(S, 0, 0)
    /\ d_given \in [claude : BOOLEAN, provider : ProviderOutcomes,
                    tv_mpaa : RootMpaas, answers : FolderAnswers]
    /\ d_root \in RootDocuments
    /\ d_episode \in EpisodeDocuments
    /\ d_steps = <<>>
    /\ dpc = "root"

\* _process_single_folder, lines 232-244: the tvshow.nfo, unless episodes_only
FolderRoot ==
    /\ dpc = "root"
    /\ LET res == ProcessNfoDocument(d_root, d_options, d_given.claude,
                                     d_given.provider, d_given.answers)
       IN  IF d_options.episodes_only
           THEN UNCHANGED <<d_root, d_steps>>
           ELSE d_root' = res.doc /\ d_steps' = Append(d_steps, res.step)
    /\ dpc' = IF d_options.translate_episodes \/ d_options.episodes_only
                 \/ IsDefaultMode(d_options)
              THEN "episodes" ELSE "done"
    /\ UNCHANGED <<d_options, d_given, d_episode>>

\* _process_single_folder, lines 247-265: the episode file
FolderEpisode ==
    /\ dpc = "episodes"
    /\ LET res == ProcessEpisodeDocument(d_episode, d_given.tv_mpaa, d_options,
                      IsDefaultMode(d_options), d_given.claude, d_given.answers)
       IN  d_episode' = res.doc /\ d_steps' = Append(d_steps, res.step)
    /\ dpc' = "done"
    /\ UNCHANGED <<d_options, d_given, d_root>>

-----------------------------------------------------------------------------
(* The order of the traversal (src/src/utils/folder_utils.py, updater.py,  *)
(* mpaa_processor.py).  A folder is known by its path, a number that       *)
(* orders as the path does; a file by its name, 0 for tvshow.nfo.  Every   *)
(* folder holds the same episode files, listed in the same order.          *)

\* The orders in which the file system may enumerate the members of S.
Enumerations(S) ==
    {s \in [1..Cardinality(S) -> S] : \A i, j \in DOMAIN s : s[i] = s[j] => i = j}

EpisodeFileNames == {1, 2}

\* get_anime_folders without its sort.
GetAnimeFolders_Unsorted(walk) == walk

\* get_anime_folders(base_folder): the folders os.walk yields, then sort()
GetAnimeFolders(walk) == SortedSeq(Range(walk))

\* The files of a folder in the order they are gone through: tvshow.nfo
\* (not in an MPAA run, which only reads it), then get_episode_files(folder).
FilesOf(mpaa_run, listing) == IF mpaa_run THEN listing ELSE <<0>> \o listing

OrderUnused ==
    /\ o_walk = <<>>
    /\ o_listing = <<>>
    /\ o_window = <<0, 0>>
    /\ o_mpaa = FALSE
    /\ o_todo = <<>>
    /\ o_files = <<>>
    /\ o_visited = <<>>
    /\ opc = "start"

OrderStart ==
    /\ \E S \in SUBSET FolderNames : o_walk \in Enumerations(S)
    /\ \E S \in SUBSET EpisodeFileNames : o_listing \in Enumerations(S)
    /\ o_window \in WindowChoices
    /\ o_mpaa \in BOOLEAN
    /\ o_todo = <<>>
    /\ o_files = <<>>
    /\ o_visited = <<>>
    /\ opc = "start"

\* run(): the folders to go through (updater.py lines 149-168 and 182-184,
\* mpaa_processor.py lines 47-57 and 74-78)
OrderFolders ==
    /\ opc = "start"
    /\ LET limited == o_window[1] > 0 \/ o_window[2] > 0
           folders == IF limited
                      THEN GetFolderSubset(GetAnimeFolders(o_walk),
                                           o_window[1], o_window[2]).subset
                      ELSE o_walk
           files == FilesOf(o_mpaa, o_listing)
       IN  /\ o_todo' = folders
           /\ o_files' = IF folders = <<>> THEN <<>> ELSE files
           /\ opc' = IF folders = <<>> \/ files = <<>> THEN "done" ELSE "run"
    /\ UNCHANGED <<o_walk, o_listing, o_window, o_mpaa, o_visited>>

\* The next file of the folder at hand is processed.
OrderVisit ==
    /\ opc = "run"
    /\ o_visited' = Append(o_visited, <<Head(o_todo), Head(o_files)>>)
    /\ IF Tail(o_files) # <<>>
       THEN o_files' = Tail(o_files) /\ UNCHANGED <<o_todo, opc>>
       ELSE /\ o_todo' = Tail(o_todo)
            /\ o_files' = IF Tail(o_todo) = <<>> THEN <<>>
                          ELSE FilesOf(o_mpaa, o_listing)
            /\ opc' = IF Tail(o_todo) = <<>> THEN "done" ELSE "run"
    /\ UNCHANGED <<o_walk, o_listing, o_window, o_mpaa>>

----------------------------------------------------------------------------
(* The specifications.                                                     *)

\* The components a specification does not use stay as constructed.
RestUnused(used) ==
    /\ IF "lang" \in used THEN TRUE ELSE LangUnused
    /\ IF "translate" \in used THEN TRUE ELSE TranslateUnused
    /\ IF "mpaa" \in used THEN TRUE ELSE MpaaUnused
    /\ IF "folder" \in used THEN TRUE ELSE FolderUnused
    /\ IF "order" \in used THEN TRUE ELSE OrderUnused

RestFrame(used) ==
    /\ IF "lang" \in used THEN TRUE ELSE UNCHANGED langVars
    /\ IF "translate" \in used THEN TRUE ELSE UNCHANGED translateVars
    /\ IF "mpaa" \in used THEN TRUE ELSE UNCHANGED mpaaVars
    /\ IF "folder" \in used THEN TRUE ELSE UNCHANGED folderVars
    /\ IF "order" \in used THEN TRUE ELSE UNCHANGED orderVars

RateInit ==
    /\ RateStart /\ rate_batch_mode \in BOOLEAN
    /\ WindowUnused /\ EnrichUnused /\ RunUnused /\ RestUnused({})
RateFrame == UNCHANGED <<windowVars, enrichVars, runVars>> /\ RestFrame({})
RateNext ==
    \/ Idle /\ RateFrame
    \/ MakeRequest /\ RateFrame
    \/ Response200 /\ RateFrame
    \/ ResponseFailure /\ RateFrame
    \/ Response429 /\ RateFrame
SpecRate == RateInit /\ [][RateNext]_vars

\* One search against a provider that may throttle for as long as it likes.
RetryNext ==
    \/ FirstSearch /\ RateFrame
    \/ Retry429 /\ RateFrame
    \/ Response200 /\ RateFrame
    \/ ResponseFailure /\ RateFrame
    \/ RecursionErrorRaised /\ RateFrame
SpecRetry == RateInit /\ [][RetryNext]_vars

WindowInit == WindowStart /\ RateUnused /\ EnrichUnused /\ RunUnused /\ RestUnused({})
WindowNext == SelectWindow /\ UNCHANGED <<rateVars, enrichVars, runVars>> /\ RestFrame({})
SpecWindow == WindowInit /\ [][WindowNext]_vars

EnrichInit == EnrichStart /\ RateUnused /\ WindowUnused /\ RunUnused /\ RestUnused({})
EnrichNext == UpdateMetadataCall /\ UNCHANGED <<rateVars, windowVars, runVars>> /\ RestFrame({})
SpecEnrich == EnrichInit /\ [][EnrichNext]_vars

(* _update_metadata with its search: the document and the options of      *)
(* SpecEnrich, the client of SpecRate.  e_response is the JSON the         *)
(* provider sends with a 200; the video search finds nothing.              *)
SearchAnswers ==
    {EmptyAnswer}
        \cup [kind : {"data"}, score : {0, 85}, genres : {<<>>, <<"A">>},
              themes : {<<>>}, trailer : {NoTrailer,
                  [youtube_id |-> "v1", embed_url |-> Url("embed", "v1"),
                   url |-> Url("watch", "v1")]}]

SearchInit ==
    /\ EnrichStart
    /\ e_response \in SearchAnswers
    /\ e_search_answer = None
    /\ RateStart
    /\ rate_batch_mode \in BOOLEAN
    /\ WindowUnused
    /\ RunUnused
    /\ RestUnused({})

\* line 137: response = self.jikan_api.search_anime(title)
SearchTitle ==
    /\ e_outcomes = <<>>
    /\ ~RatingRaises(e_root)
    /\ FirstSearch
    /\ UNCHANGED enrichVars

\* lines 139-255 after the search returned or raised, or lines 129-130
\* raised before it.
FinishUpdate ==
    /\ e_outcomes = <<>>
    /\ RatingRaises(e_root) \/ (rpc = "idle" /\ sent # <<>>)
    /\ ApplyUpdate(IF last_result = "json" THEN e_response ELSE NoAnswer)
    /\ UNCHANGED rateVars

SearchFrame == UNCHANGED <<windowVars, runVars>> /\ RestFrame({})
SearchNext ==
    \/ SearchTitle /\ SearchFrame
    \/ Response429 /\ UNCHANGED enrichVars /\ SearchFrame
    \/ Response200 /\ UNCHANGED enrichVars /\ SearchFrame
    \/ ResponseFailure /\ UNCHANGED enrichVars /\ SearchFrame
    \/ FinishUpdate /\ SearchFrame
SpecSearch == SearchInit /\ [][SearchNext]_vars

RunInit == RunStart /\ RateUnused /\ WindowUnused /\ EnrichUnused /\ RestUnused({})
RunFrame == UNCHANGED <<rateVars, windowVars, enrichVars>> /\ RestFrame({})
RunNext ==
    \/ Run /\ RunFrame
    \/ ProcessRoot /\ RunFrame
    \/ ListEpisodes /\ RunFrame
    \/ ProcessEpisode /\ RunFrame
    \/ MpaaFolder /\ RunFrame
    \/ MpaaEpisode /\ RunFrame
    \/ Summarize /\ RunFrame
SpecRun == RunInit /\ [][RunNext]_vars

\* appears_to_be_french applied to one text.
LangInit ==
    /\ LangStart /\ RateUnused /\ WindowUnused /\ EnrichUnused /\ RunUnused
    /\ RestUnused({"lang"})
LangNext ==
    AppearsToBeFrenchCall
        /\ UNCHANGED <<rateVars, windowVars, enrichVars, runVars>>
        /\ RestFrame({"lang"})
SpecLang == LangInit /\ [][LangNext]_vars

\* The translation step of one tvshow.nfo or one episode file.
TranslateInit ==
    /\ TranslateStart /\ RateUnused /\ WindowUnused /\ EnrichUnused /\ RunUnused
    /\ RestUnused({"translate"})
TranslateFrame ==
    UNCHANGED <<rateVars, windowVars, enrichVars, runVars>>
        /\ RestFrame({"translate"})
TranslateNext ==
    \/ TranslateRootCall /\ TranslateFrame
    \/ TranslateEpisodeCall /\ TranslateFrame
SpecTranslate == TranslateInit /\ [][TranslateNext]_vars

\* _process_mpaa_for_folder on one folder.
MpaaInit ==
    /\ MpaaStart /\ RateUnused /\ WindowUnused /\ EnrichUnused /\ RunUnused
    /\ RestUnused({"mpaa"})
MpaaFrame ==
    UNCHANGED <<rateVars, windowVars, enrichVars, runVars>> /\ RestFrame({"mpaa"})
MpaaNext ==
    \/ MpaaForFolder /\ MpaaFrame
    \/ MpaaSyncFile /\ MpaaFrame
    \/ MpaaRemoveFile /\ MpaaFrame
SpecMpaa == MpaaInit /\ [][MpaaNext]_vars

\* The files of one folder of a run that is not an MPAA run.
FolderInit ==
    /\ FolderStart /\ RateUnused /\ WindowUnused /\ EnrichUnused /\ RunUnused
    /\ RestUnused({"folder"})
FolderFrame ==
    UNCHANGED <<rateVars, windowVars, enrichVars, runVars>> /\ RestFrame({"folder"})
FolderNext ==
    \/ FolderRoot /\ FolderFrame
    \/ FolderEpisode /\ FolderFrame
SpecFolder == FolderInit /\ [][FolderNext]_vars

\* The order in which a run goes through the folders and their files.
OrderInit ==
    /\ OrderStart /\ RateUnused /\ WindowUnused /\ EnrichUnused /\ RunUnused
    /\ RestUnused({"order"})
OrderFrame ==
    UNCHANGED <<rateVars, windowVars, enrichVars, runVars>> /\ RestFrame({"order"})
OrderNext ==
    \/ OrderFolders /\ OrderFrame
    \/ OrderVisit /\ OrderFrame
SpecOrder == OrderInit /\ [][OrderNext]_vars

----------------------------------------------------------------------------
(* Claims about the rate limiter.                                          *)

\* The recorded calls younger than one minute at time t.
InTrailingMinute(t) == {i \in DOMAIN recorded : t - recorded[i] < Minute}

\* C1: at every moment, at most jikan_minute_limit of the recorded calls lie
\* in the trailing 60 seconds, also after the limiter waited for the minute
\* cap and cleared its history.
C1_MinuteCapHolds == Cardinality(InTrailingMinute(now)) <= jikan_minute_limit

\* C2: no 3 consecutive recorded calls complete in under 1 second and no 60
\* consecutive recorded calls complete in under 60 seconds.
C2_WindowsTakeTheirTime ==
    /\ \A i \in DOMAIN recorded :
          i + (jikan_second_limit - 1) \in DOMAIN recorded
            => recorded[i + (jikan_second_limit - 1)] - recorded[i] >= TicksPerSecond
    /\ \A i \in DOMAIN recorded :
          i + (jikan_minute_limit - 1) \in DOMAIN recorded
            => recorded[i + (jikan_minute_limit - 1)] - recorded[i] >= Minute

----------------------------------------------------------------------------
(* Claims about the folder window.                                         *)

WindowLen    == Len(w_folders)
WindowRest   == Max2(WindowLen - w_offset, 0)

\* The claim as first stated: the subset holds min(max(L-O,0), M or L-O)
\* folders, "M or L-O" being M when M is not 0 and L-O when M is 0.
C7_CountAsStated ==
    wpc = "done" =>
        Len(w_result.subset) =
            Min2(WindowRest,
                 IF w_max_folders # 0 THEN w_max_folders ELSE WindowLen - w_offset)

\* C7 (amended): the subset holds min(max(L-O,0), M) folders when M is not
\* 0 and max(L-O,0) folders when M is 0.
C7_Count ==
    wpc = "done" =>
        Len(w_result.subset) =
            IF w_max_folders # 0 THEN Min2(WindowRest, w_max_folders) ELSE WindowRest

\* An offset past the end of the list, no limit: nothing is selected.
C7_Witness ==
    /\ wpc = "done"
    /\ w_offset > WindowLen
    /\ w_max_folders = 0
    /\ WindowLen > 0
    /\ w_result.subset = <<>>

\* C8: skipped_offset = min(O, L), the three counts add up to L, and the
\* subset is the run of the input list that starts at index skipped_offset.
C8_CountsAndRun ==
    wpc = "done" =>
        /\ w_result.skipped_offset = Min2(w_offset, WindowLen)
        /\ w_result.skipped_offset + w_result.skipped_limit
              + Len(w_result.subset) = WindowLen
        /\ \A i \in DOMAIN w_result.subset :
              w_result.subset[i] = w_folders[w_result.skipped_offset + i]

\* Both clamps cut folders away and something is left between them.
C8_Witness ==
    /\ wpc = "done"
    /\ w_result.skipped_offset > 0
    /\ w_result.skipped_limit > 0
    /\ Len(w_result.subset) > 1

----------------------------------------------------------------------------
(* Claims about the metadata update (SpecEnrich).  Every call of a         *)
(* behaviour gets the same catalog answer and the same video search        *)
(* answer; e_before[i], e_after[i] and e_outcomes[i] are the document      *)
(* before and after the i-th call and what the call returned.              *)

\* C3: with force-update off, the second of two calls in succession on the
\* same document, given identical provider responses, returns changed = false.
C3_SecondCallUnchanged ==
    (Len(e_outcomes) >= 2 /\ ~e_force_update) => ~e_outcomes[2].changed

\* C4: with force-update off and identical provider responses, the document
\* after the second call (its elements in order, and their texts) is the
\* document after the first call.
C4_SecondCallSameDocument ==
    (Len(e_after) >= 2 /\ ~e_force_update)
        => Serialize(e_after[2]) = Serialize(e_after[1])

GenreIds(root) == {e.id : e \in Range(FindAll(root, "genre"))}
AllIds(root)   == {e.id : e \in Range(root)}
GenreSet(root) == {e.text : e \in Range(FindAll(root, "genre"))}

\* C5: a call that fetched a non-empty genre list removes every stored genre
\* element, leaves as genre elements the fetched genres in provider order,
\* and returns changed = true, whatever the stored genres were.
C5_GenresReplaced ==
    \A i \in DOMAIN e_outcomes :
        (e_outcomes[i].matched /\ e_response.genres # <<>>) =>
            /\ GenreIds(e_before[i]) \cap AllIds(e_after[i]) = {}
            /\ Texts(FindAll(e_after[i], "genre")) = e_response.genres
            /\ e_outcomes[i].changed

\* A call on a document whose two stored genres are the two fetched ones,
\* which changes nothing else and returns changed = true.
C5_Witness ==
    /\ Len(e_outcomes) >= 2
    /\ e_outcomes[2].matched
    /\ Len(e_response.genres) = 2
    /\ GenreSet(e_before[2]) = Range(e_response.genres)
    /\ ~e_force_update
    /\ e_response.themes = <<>>
    /\ Serialize(e_after[2]) = Serialize(e_before[2])
    /\ e_outcomes[2].changed

----------------------------------------------------------------------------
(* Claims about the updater's run (SpecRun).  last is the step of the file *)
(* processed last: what the step returned (changed) and whether it called  *)
(* write_xml_file on the file (wrote); fs counts what the traversal met.   *)

\* C6: a tvshow.nfo or episode file is written back exactly when the step
\* that processed it returned changed = true; a file whose step returned
\* false, was skipped or failed is not written.
C6_WrittenIffChanged == last.wrote <=> last.changed

\* A tvshow.nfo written back after its step returned true, in a run in which
\* an earlier file failed.
C6_Witness ==
    /\ last.kind = "root"
    /\ last.changed
    /\ last.wrote
    /\ stats.errors > 0

\* The traversal is over: the summary is due or printed, or run() was left
\* by an exception.
Traversed == pc \in {"Summarize", "Done", "Fatal"}

\* Exactly one root record met is malformed and nothing else is out of order:
\* every other root record is readable and titled, every episode file is
\* readable and well formed, every folder could be listed.
OneMalformedRoot == fs.malformed_roots = 1 /\ ~fs.irregular

OneErrorOthersProcessed ==
    /\ pc # "Fatal"
    /\ stats.errors = 1
    /\ stats.processed_files = fs.roots - 1

MalformedNeverWritten == last.health = "malformed" => ~last.wrote

\* C9 as stated: in any run over N folders with exactly one malformed root
\* record the run completes, errors ends at 1, the other N-1 root records
\* are processed and the malformed file is never written.
C9_AsStated ==
    /\ (Traversed /\ OneMalformedRoot) => OneErrorOthersProcessed
    /\ MalformedNeverWritten

\* C9: the same in a run that processes root records, that is a run without
\* sync_mpaa, remove_mpaa and episodes_only.
C9_OneMalformedRoot ==
    /\ (Traversed /\ OneMalformedRoot /\ mode # "MPAA" /\ ~options.episodes_only)
          => OneErrorOthersProcessed
    /\ MalformedNeverWritten

\* A finished default-mode run over at least two folders, one root record
\* malformed, an episode file processed in every folder.
C9_Witness ==
    /\ pc = "Done"
    /\ is_default_mode
    /\ OneMalformedRoot
    /\ fs.roots >= 2
    /\ stats.episodes_processed = fs.roots
    /\ stats.errors = 1

\* C10: whatever fails during the traversal, run() is never left by an
\* exception, and when it ends the summary was printed exactly once.
C10_AlwaysSummarized ==
    /\ pc # "Fatal"
    /\ pc = "Done" => summaries = 1

----------------------------------------------------------------------------
(* Claims about one search under throttling (SpecRetry).                   *)

\* C11: a search that meets HTTP 429 is retried after the cool-down until an
\* answer other than 429 arrives: it ends only on such an answer, with the
\* JSON of a 200 or with None on another status or a network failure, and
\* while the provider keeps throttling it does not end.
C11_SearchEndsOnlyOnAnswer ==
    (rpc = "idle" /\ sent # <<>>) => last_result \in {"json", "None"}

----------------------------------------------------------------------------
(* Claims about _update_metadata with its search (SpecSearch).             *)

\* C12: when the provider answers with a status other than 200 and 429, or
\* the request fails at network level, the search returns None without
\* another request; _update_metadata then leaves the document as it was and
\* returns False, without raising.
C12_FailureIsNoData ==
    last_status = "error" =>
        /\ rpc = "idle"
        /\ last_result = "None"
        /\ Len(sent) = throttled + 1
        /\ e_outcomes # <<>> =>
              /\ e_after[1] = e_before[1]
              /\ ~e_outcomes[1].changed
              /\ ~e_outcomes[1].raised

\* A failure answer to the retry of a throttled search for a title the
\* provider holds data of, on a document that is not empty.
C12_Witness ==
    /\ last_status = "error"
    /\ throttled = 1
    /\ e_response.kind = "data"
    /\ e_response.genres # <<>>
    /\ e_outcomes # <<>>
    /\ e_before[1] # <<>>

----------------------------------------------------------------------------
(* Further claims about the metadata update (SpecEnrich).                  *)

\* C13: when the search has no match for the title (no response, or an
\* empty data list), a call of _update_metadata leaves the document as it
\* was, returns False and adds nothing to the errors counter.
C13_NoMatchNoChange ==
    e_response.kind \in {"none", "empty"} =>
        \A i \in DOMAIN e_outcomes :
            /\ e_after[i] = e_before[i]
            /\ ~e_outcomes[i].changed
            /\ e_outcomes[i].errors = 0

\* A search with an empty data list for the title of a document that is not
\* empty.
C13_Witness ==
    /\ e_response.kind = "empty"
    /\ e_outcomes # <<>>
    /\ e_outcomes[1].searched
    /\ e_before[1] # <<>>

-----------------------------------------------------------------------------
(* Claim under SpecTranslate.                                              *)

\* translate_text returned None for field k, or there was no client to ask
C14_ReturnedNone(k) ==
    \/ ~t_client
    \/ t_outcome.returned[k].called /\ t_outcome.returned[k].none

\* field k holds a text translate_text returned
C14_Translated(k) ==
    /\ t_outcome.returned[k].called
    /\ ~t_outcome.returned[k].none
    /\ t_fields[k] = t_outcome.returned[k].text

\* C14: whenever translate_text returns None for a field (the provider
\* raised, the input was empty, or there is no translation client), the
\* plot or outline of the tvshow.nfo, or the title or plot of the episode,
\* keeps its original text, and changed is only true if the other field
\* took a text that translate_text returned.
C14_NoneKeepsText ==
    t_kind # "none" =>
        \A k \in 1..2 :
            C14_ReturnedNone(k) =>
                /\ t_fields[k] = t_before[k]
                /\ t_outcome.changed => C14_Translated(3 - k)

\* The provider raised on the first field and translated the second.
C14_Witness ==
    /\ t_kind = "root"
    /\ t_outcome.returned[1] = ReturnedNone
    /\ t_answers[1].kind = "exception"
    /\ t_before[1] # <<>>
    /\ t_fields[1] = t_before[1]
    /\ C14_Translated(2)
    /\ t_fields[2] # t_before[2]
    /\ t_outcome.changed

-----------------------------------------------------------------------------
(* Claim under SpecLang.                                                   *)

\* how many entries of the indicator list occur in the lower-cased text
C20_EntriesPresent ==
    Cardinality({indicator \in Range(french_indicators) :
        \E i \in 1..Len(l_text) : OccursAt(indicator, Lower(l_text), i)})

\* how many occurrences of entries of the list the lower-cased text holds
C20_Occurrences ==
    Cardinality({p \in Range(french_indicators) \X (1..Len(l_text)) :
        OccursAt(p[1], Lower(l_text), p[2])})

\* C20 as stated: appears_to_be_french returns true exactly when the count
\* of occurrences of indicator-list entries in the lower-cased text exceeds
\* 2 (three matches give true, two give false).
C20_AsStated == lpc = "done" => (l_result <=> C20_Occurrences > 2)

\* C20: appears_to_be_french returns true exactly when more than 2 entries
\* of the indicator list occur in the lower-cased text, each entry counted
\* once however often it occurs: three entries present give true, two
\* give false.
C20_EntriesCountedOnce == lpc = "done" => (l_result <=> C20_EntriesPresent > 2)

\* A text holding exactly three entries of the list was found French.
C20_Witness ==
    /\ lpc = "done"
    /\ C20_EntriesPresent = 3
    /\ l_result

-----------------------------------------------------------------------------
(* Claim under SpecMpaa.                                                   *)

\* C15 (its remove clause): after remove mode has processed a folder, no
\* episode-type record of that folder contains an mpaa field.
C15_RemoveLeavesNoMpaa ==
    (mpc = "done" /\ m_options.remove_mpaa /\ ~m_options.sync_mpaa) =>
        \A i \in DOMAIN m_episodes :
            m_episodes[i].tag = "episodedetails" => m_episodes[i].mpaa = <<>>

-----------------------------------------------------------------------------
(* Claims under SpecFolder.  d_steps holds the step of every file the      *)
(* folder's processing has gone through.                                   *)

C16_Steps == {d_steps[i] : i \in DOMAIN d_steps}

\* C16: in a translate-only run no catalog search is issued and no rating,
\* genre, tag or trailer field is changed; in a rating-only or
\* skip-translate run no translation request is issued and no title, plot
\* or outline text is changed; in an episodes-only run no root record is
\* written.
C16_FlagsHoldBack ==
    /\ d_options.translate_only =>
           \A s \in C16_Steps : s.searches = 0 /\ ~s.metadata_changed
    /\ (d_options.rating_only \/ d_options.skip_translate) =>
           \A s \in C16_Steps : s.requests = 0 /\ ~s.text_changed
    /\ d_options.episodes_only =>
           \A s \in C16_Steps : s.kind = "episode"

\* A translate-only run translated and wrote a tvshow.nfo without a search,
\* then went through the episode file.
C16_Witness ==
    /\ d_options.translate_only
    /\ d_given.provider = "changed"
    /\ dpc = "done"
    /\ Len(d_steps) = 2
    /\ d_steps[1].kind = "root"
    /\ d_steps[1].requests > 0
    /\ d_steps[1].text_changed
    /\ d_steps[1].wrote
    /\ d_steps[1].searches = 0

\* C19: a root record whose title is absent or empty, a title made only of
\* whitespace included, is skipped: no provider call is issued for it, the
\* document is not changed and the file is not written.
C19_BlankTitleSkipped ==
    (d_steps # <<>> /\ d_steps[1].kind # "episode" /\ Strip(d_root.title) = <<>>) =>
        /\ d_steps[1].searches = 0
        /\ d_steps[1].requests = 0
        /\ ~d_steps[1].changed
        /\ ~d_steps[1].wrote

-----------------------------------------------------------------------------
(* Further claim under SpecEnrich.                                         *)

\* C17: with no video-search client, trailer resolution falls back to the
\* provider's trailer descriptor: when the descriptor carries a video
\* identifier, _update_metadata still writes the trailer field from it,
\* and no video search is issued.
C17_DescriptorTrailerWritten ==
    \A i \in DOMAIN e_outcomes :
        (/\ ~e_youtube_api
         /\ e_response.kind = "data"
         /\ Truthy(ExtractYoutubeId(e_response.trailer))
         /\ ~e_outcomes[i].raised) =>
            /\ ~e_outcomes[i].video_searched
            /\ \E k \in DOMAIN e_after[i] :
                  /\ e_after[i][k].tag = "trailer"
                  /\ e_after[i][k].text = TrailerUrl(ExtractYoutubeId(e_response.trailer))

-----------------------------------------------------------------------------
(* Claim under SpecOrder.                                                  *)

C18_Limited == o_window[1] > 0 \/ o_window[2] > 0

\* the files of the folders in seq, folder after folder, each folder's
\* files in the order files gives
RECURSIVE C18_FolderByFolder(_, _)
C18_FolderByFolder(seq, files) ==
    IF seq = <<>> THEN <<>>
    ELSE [i \in DOMAIN files |-> <<Head(seq), files[i]>>]
             \o C18_FolderByFolder(Tail(seq), files)

\* the window get_folder_subset cuts out of the sorted folders
C18_SortedWindow ==
    LET sorted == SortedSeq(Range(o_walk))
        first  == Min2(o_window[1], Len(sorted)) + 1
        last_  == IF o_window[2] > 0
                  THEN Min2(first - 1 + o_window[2], Len(sorted))
                  ELSE Len(sorted)
    IN  SubSeq(sorted, first, last_)

\* C18 as stated: in every mode the folders are processed one at a time in
\* sorted order of their paths and the files of a folder one at a time in
\* sorted order, whatever order the file system enumerates them in.
C18_AsStated ==
    \A i, j \in DOMAIN o_visited :
        i < j =>
            /\ o_visited[i][1] <= o_visited[j][1]
            /\ o_visited[i][1] = o_visited[j][1] => o_visited[i][2] < o_visited[j][2]

\* C18: files are processed one at a time, folder after folder.  With an
\* offset or a limit the folders are taken in sorted order of their paths,
\* whatever order the file system enumerates them in; without one they are
\* taken in the order the walk enumerates them.  In every mode the episode
\* files of a folder are taken in the order the listing enumerates them,
\* after the folder's tvshow.nfo.
C18_OrderAsEnumerated ==
    LET folders  == IF C18_Limited THEN C18_SortedWindow ELSE o_walk
        files    == IF o_mpaa THEN o_listing ELSE <<0>> \o o_listing
        expected == C18_FolderByFolder(folders, files)
    IN  /\ Len(o_visited) <= Len(expected)
        /\ o_visited = SubSeq(expected, 1, Len(o_visited))
        /\ opc = "done" => o_visited = expected

\* A windowed run went through two folders in sorted order although the
\* walk enumerated them the other way round.
C18_Witness ==
    /\ opc = "done"
    /\ C18_Limited
    /\ \E i, j \in DOMAIN o_walk : i < j /\ o_walk[i] > o_walk[j]
                                  /\ <<o_walk[i], 0>> \in Range(o_visited)
                                  /\ <<o_walk[j], 0>> \in Range(o_visited)
    /\ Len(o_visited) >= 4

-----------------------------------------------------------------------------
(* Further claims about the rate limiter (SpecRate).                       *)

\* C21: any two consecutive calls the client recorded are at least
\* 1/jikan_second_limit seconds apart, on every path through
\* _apply_rate_limits, the one that waits for the per-minute cap included.
C21_ConsecutiveCallsSpaced ==
    \A i \in DOMAIN recorded :
        i + 1 \in DOMAIN recorded
            => recorded[i + 1] - recorded[i] >= TicksPerSecond \div jikan_second_limit

\* C28: counting every request that went out, those answered with HTTP 429
\* included, at most jikan_minute_limit requests are sent in any interval
\* of 60 seconds.  (More than that many lie in one such interval exactly
\* when some request is less than 60 seconds later than the request
\* jikan_minute_limit places before it, and every request is the latest
\* one in the state that follows its sending.)
C28_SentWithinMinuteCap ==
    Len(sent) > jikan_minute_limit =>
        sent[Len(sent)] - sent[Len(sent) - jikan_minute_limit] >= Minute

-----------------------------------------------------------------------------
(* Further claims about the run (SpecRun).                                 *)

\* C22: a run takes one branch and is summarised once before it is done:
\* the MPAA branch exactly when sync_mpaa or remove_mpaa is set, otherwise
\* the windowed branch exactly when folder_offset > 0 or max_folders > 0,
\* otherwise the walk; in the MPAA branch no root record is processed and
\* every file is handled by the processor that holds no provider client.
C22_ModeStated ==
    IF options.sync_mpaa \/ options.remove_mpaa THEN "MPAA"
    ELSE IF options.folder_offset > 0 \/ options.max_folders > 0 THEN "Windowed"
    ELSE "Walk"

C22_OnePath ==
    /\ (pc = "Start") <=> (mode = "None")
    /\ mode # "None" => mode = C22_ModeStated
    /\ summaries = (IF pc = "Done" THEN 1 ELSE 0)
    /\ mode = "MPAA" =>
          /\ last.kind # "root"
          /\ last.by \in {"none", "MPAAProcessor"}
          /\ stats.processed_files = 0
          /\ stats.episodes_processed = 0
          /\ stats.episodes_translated = 0

C22_Witness ==
    /\ pc = "Done"
    /\ mode = "MPAA"
    /\ options.sync_mpaa
    /\ options.folder_offset > 0
    /\ last.by = "MPAAProcessor"
    /\ last.wrote

-----------------------------------------------------------------------------
(* Further claims about one throttled search (SpecRetry).                  *)

\* C23: once a search has ended, jikan_api_calls is the number of requests
\* sent that were not answered with HTTP 429: every throttled attempt has
\* been uncounted and its timestamp removed, and the counter is not negative.
C23_CountsAnsweredRequests ==
    (rpc = "idle" /\ sent # <<>>) =>
        /\ jikan_api_calls = Len(sent) - throttled
        /\ jikan_api_calls >= 0

-----------------------------------------------------------------------------
(* Further claims about _update_metadata (SpecEnrich).                     *)

\* C24: a call replaces the tag elements, all removed and the fetched
\* themes written in the provider's order, exactly when the answer carries
\* themes and the stored tag texts differ from them as a set or force_update
\* is set; otherwise every tag element stays as it was and the tags add
\* nothing to the changes.
C24_TagsOf(doc) == FindAll(doc, "tag")

C24_Replaces(k) ==
    /\ e_outcomes[k].matched
    /\ e_response.themes # <<>>
    /\ \/ {e.text : e \in Range(C24_TagsOf(e_before[k]))} # Range(e_response.themes)
       \/ e_force_update

C25_Resolved ==
    IF e_youtube_api
    THEN IF Truthy(ExtractYoutubeId(e_response.trailer))
         THEN ExtractYoutubeId(e_response.trailer)
         ELSE e_search_answer
    ELSE None

C25_Stored(doc) ==
    IF Find(doc, "trailer") = 0 THEN None ELSE doc[Find(doc, "trailer")].text

C25_TrailerCall(k) == e_outcomes[k].matched /\ Truthy(C25_Resolved)

C25_TrailerChangeIffDiffersOrForced ==
    \A k \in DOMAIN e_outcomes :
        C25_TrailerCall(k) =>
            /\ C25_Stored(e_after[k]) = TrailerUrl(C25_Resolved)
            /\ e_outcomes[k].trailer_updated
                  <=> \/ C25_Stored(e_before[k]) # TrailerUrl(C25_Resolved)
                      \/ e_force_update
            /\ e_outcomes[k].trailer_updated => e_outcomes[k].changed

\* A forced call on a trailer that already equals the URI, and an unforced
\* one: the first is a change, the second is none.
C25_Witness ==
    /\ Len(e_outcomes) >= 1
    /\ C25_TrailerCall(1)
    /\ e_force_update
    /\ C25_Stored(e_before[1]) = TrailerUrl(C25_Resolved)
    /\ e_outcomes[1].trailer_updated

\* C25 as stated: a stored trailer equal to the URI is no change, with or
\* without force_update.
C25_AsStated ==
    \A k \in DOMAIN e_outcomes :
        C25_TrailerCall(k) =>
            /\ C25_Stored(e_after[k]) = TrailerUrl(C25_Resolved)
            /\ e_outcomes[k].trailer_updated
                  <=> C25_Stored(e_before[k]) # TrailerUrl(C25_Resolved)

\* C27: a failure raised inside _update_metadata while a tvshow.nfo is
\* enriched adds exactly 1 to the errors counter.
C27_FailureCountedOnce ==
    \A k \in DOMAIN e_outcomes : e_outcomes[k].raised => e_outcomes[k].errors = 1

\* C29: with the same answers on every call and force_update off, the
\* document is the same, element order and texts, after the third call of
\* _update_metadata as after the second, and after every later call as
\* after the one before it.
C29_ConvergesAfterTwo ==
    ~e_force_update =>
        \A k \in DOMAIN e_after :
            k >= 3 => Serialize(e_after[k]) = Serialize(e_after[k - 1])

\* Three calls of which the second still reordered the document.
C29_Witness ==
    /\ ~e_force_update
    /\ Len(e_after) >= 3
    /\ e_outcomes[1].matched
    /\ Serialize(e_after[1]) # Serialize(e_before[1])
    /\ Serialize(e_after[2]) # Serialize(e_after[1])
    /\ Serialize(e_after[3]) = Serialize(e_after[2])

-----------------------------------------------------------------------------
(* Further claims about one folder (SpecFolder).                           *)

C26_EpisodeSteps == {s \in Range(d_steps) : s.kind = "episode"}

\* C26: process_episode_nfo sets the episode's <mpaa> to the rating of the
\* tvshow.nfo exactly when the default mode is active, the tvshow.nfo has a
\* rating and the episode has none or another one; in every other case, and
\* always outside the default mode, the episode's <mpaa> stays as it was.
C26_MpaaInheritedOrSynced ==
    \A s \in C26_EpisodeSteps :
        /\ s.mpaa_changed <=> /\ IsDefaultMode(d_options)
                              /\ d_given.tv_mpaa \notin {None, ""}
                              /\ s.mpaa_before # d_given.tv_mpaa
        /\ d_episode.mpaa = IF s.mpaa_changed THEN d_given.tv_mpaa ELSE s.mpaa_before
        /\ s.mpaa_changed => s.wrote

\* An episode rated R under a show rated PG, default mode: it ends as PG.
C26_Witness ==
    \E s \in C26_EpisodeSteps :
        /\ IsDefaultMode(d_options)
        /\ s.mpaa_before = "R"
        /\ d_given.tv_mpaa = "PG"
        /\ s.mpaa_changed
        /\ d_episode.mpaa = "PG"

\* C26 as stated: the rating is copied only onto an episode without <mpaa>
\* and only in the default mode; an episode that has one keeps it.
C26_AsStated ==
    \A s \in C26_EpisodeSteps :
        /\ s.mpaa_changed => (s.mpaa_before = None /\ IsDefaultMode(d_options))
        /\ s.mpaa_before # None => d_episode.mpaa = s.mpaa_before
        /\ ~IsDefaultMode(d_options) => d_episode.mpaa = s.mpaa_before

\* C30: a run with batch_mode as its only flag processes the files a run
\* with no flag processes: like that run, it processes the episode file of
\* the folder.
C30_BatchProcessesSameFiles ==
    (dpc = "done" /\ d_options \in {MakeOptions({}, 0, 0), MakeOptions({"batch_mode"}, 0, 0)})
        => \E s \in Range(d_steps) : s.kind = "episode"

====
